---- MODULE Spec2Model ----
(***************************************************************************)
(* Treasury (arcana-engine/treasury): the asset id generator               *)
(* (id/src/lib.rs), the import engine Treasury::store (store/src/lib.rs),   *)
(* the hashes (store/src/sha256.rs) and the artifact and meta files         *)
(* (store/src/meta.rs), the importer registry and the plugin FFI           *)
(* (store/src/importer, import/src/lib.rs) and the server                  *)
(* (server/src/server.rs), as state machines.                              *)
(*                                                                         *)
(* Specifications:                                                         *)
(*   SpecId       threads calling AssetIdContext::generate on two contexts *)
(*   SpecIdLong   one thread, one context, unboundedly many calls          *)
(*   SpecStore    sequences of Treasury::store calls on one treasury, the  *)
(*                sources modified between the calls                       *)
(*   SpecHex      a hash rendered as hex and parsed back                   *)
(*   SpecCandidates  with_path_candidates with a visitor that answers      *)
(*                anything                                                 *)
(*   SpecPlace    AssetMeta::new called one call after the other           *)
(*   SpecPlaceCrowded  the same, every prefix name of a hash taken         *)
(*   SpecRace     two processes calling AssetMeta::new on one directory    *)
(*   SpecLookup   SourceMeta::new for external sources                     *)
(*   SpecMeta     SourceMeta::new and add_asset, local and external        *)
(*   SpecImporters   Importers::add_importer and guess                     *)
(*   SpecFfi      one ImporterFFI::import against a plugin                 *)
(*   SpecLoad     Treasury::new loading the importer libraries             *)
(*   SpecTemp     store calls with data: URLs and importers leaving output *)
(*   SpecRegistry connections sending Open to the server                   *)
(*   SpecIdle     the server's accept loop and its idle timer              *)
(*   SpecRequests connections sending requests after Open                  *)
(*   SpecFetch    threads calling Treasury::fetch next to store calls      *)
(*   SpecRequire  store calls whose importer requires sources              *)
(*   SpecSources  calls of Sources::fetch and Sources::get on one cache    *)
(*   SpecScramble the composition of an id from two triples of fields      *)
(*   SpecExport   treasury_export_importers and the loop of load_importers *)
(***************************************************************************)
EXTENDS Integers, Sequences, FiniteSets, TLC

VARIABLES
    now,        \* the wall clock: milliseconds since the epoch (negative: before it)
    ctx,        \* AssetIdContext per context: node, counter, last_timestamp, mutex
    thr,        \* per thread: its position in generate() and its locals
    issued,     \* per context: the ids generate() has returned
    ncalls,     \* per context: how many calls of generate() have returned
    track,      \* whether issued/ncalls are recorded (they bound the run)
    mtime,      \* file system: modification time of every source file
    meta,       \* file system: the source metas, source -> target -> asset
    policy,     \* the importer plugins: how the importer of each item answers
    asked,      \* importer plugin state: whether it has requested its dependency
    stack,      \* Treasury::store: the item stack
    fetched,    \* Treasury::store: the Sources cache of this call
    result,     \* Treasury::store: where the call stands / how it ended
    call,       \* the arguments of the current (or last) store call
    ret,        \* what the last store call returned
    meta0,      \* history: the source metas when the current call started
    hist,       \* history: what the last step of the engine did
    temps,      \* Treasury::store: the files on disk at paths its Temporaries made
    budget,     \* the store calls the client still makes
    walk,       \* with_path_candidates: the loop it is in and what it has visited
    dir,        \* file system: the artifacts directory, file name -> entry
    jobs,       \* per process: the AssetMeta::new it runs (its own candidate loop)
    placed,     \* history: the asset metas AssetMeta::new has returned
    external,   \* file system: the external directory, file name -> meta file
    sidecar,    \* file system: the .treasure file beside each local source
    opened,     \* what the last SourceMeta::new returned
    stored,     \* history: the assets add_asset has stored, per URL and key
    resolved,   \* history: the meta paths the lookups of each URL resolved to
    adds,       \* history: how many add_asset calls have written a meta
    conv,       \* a hash on its way through the hex rendering and the parser
    reg,        \* Importers: target -> the importers, formats and extensions of it
    added,      \* history: the importers add_importer was called with, in order
    ffi,        \* ImporterFFI::import: the result buffer, *result_len, the plugin
                \* answers and the result of the call
    ld,         \* Treasury::new: the libraries of Treasury.toml and how far the
                \* loop over them is
    srv,        \* the server's run(): its loop, the idle timer, the registry of
                \* treasuries and its lock, the Treasury.toml files on disk
    conn,       \* per connection: where try_serve stands, the requests it has
                \* read and the responses it has sent
    arts,       \* Treasury: the scanned flag and the artifacts map with their
                \* locks, and how many scans were made
    fth,        \* per thread: the Treasury::fetch it runs
    fch,        \* a Sources cache with its Temporaries, and the last call on it
    scr,        \* two timestamp/node/counter triples and the ids made of them
    ex          \* an importers library, the host buffer of load_importers and
                \* the last call of treasury_export_importers

vars == <<now, ctx, thr, issued, ncalls, track, mtime, meta, policy, asked,
          stack, fetched, result, call, ret, meta0, hist, temps, budget, walk,
          dir, jobs, placed, external, sidecar, opened, stored, resolved,
          adds, conv, reg, added, ffi, ld, srv, conn, arts, fth, fch, ex, scr>>

idVars == <<ctx, thr, issued, ncalls, track>>
storeVars == <<mtime, meta, policy, asked, stack, fetched, result, call, ret,
               meta0, hist, temps, budget>>
metaVars == <<external, sidecar, opened, stored, resolved, adds>>
hexVars == <<conv>>
pathVars == <<walk, dir, jobs, placed, metaVars, hexVars>>
impVars == <<reg, added>>
ffiVars == <<ffi>>
ldVars == <<ld>>
srvVars == <<srv, conn>>
fetchVars == <<arts, fth>>
tailVars == <<fch, ex, scr>>
restVars == <<fetchVars, tailVars>>
laterVars == <<impVars, ffiVars, ldVars, srvVars, restVars>>

----------------------------------------------------------------------------
(* Bounds of the model.                                                    *)

\* Clock readings range over -1..MaxTime (milliseconds relative to the epoch).
MaxTime == 1
\* generate() calls that are recorded in issued (SpecId).
MaxCalls == 3
\* Capacity of the item stack: a push beyond it exhausts the memory.
MaxStack == 4
\* At most MaxMtime modifications of source files in a behaviour.
MaxMtime == 1
\* store calls per behaviour (SpecStore).
MaxStoreCalls == 2
\* Artifact placements (AssetMeta::new) per behaviour.
MaxPlacements == 3
\* Assets stored by add_asset per behaviour.
MaxAdds == 2
\* Largest suffix index with_path_candidates is followed to.
MaxSuffix == 2
\* Importers registered in a behaviour.
MaxImporters == 3
\* Calls of the plugin's import function in one ImporterFFI::import.
MaxFfiCalls == 3
\* Importer libraries listed in one Treasury.toml.
MaxLibs == 3
\* Connections the server accepts in a behaviour.
MaxConns == 2
\* Requests one connection sends after Open.
MaxRequests == 2
\* Seconds the server's clock runs.
MaxClock == 3
\* Failures of the listener the server recovers from by binding again.
MaxRebinds == 1
\* Calls of Treasury::fetch in a behaviour.
MaxFetches == 3
\* Timestamps (milliseconds) of the ids compared.
MaxStamp == 3
\* Importers of a library made by make_treasury_importers_library.
MaxExported == 67
\* Calls of treasury_export_importers in a behaviour.
MaxExportCalls == 3
\* Calls of Sources::fetch and Sources::get in a behaviour.
MaxSourceCalls == 4

----------------------------------------------------------------------------
(* 64-bit unsigned arithmetic on little-endian sequences of 8 bytes         *)
(* (TLC's integers are 32 bits wide).                                       *)

RECURSIVE Bytes(_, _)
\* The k low bytes of n, least significant first.
Bytes(n, k) ==
    IF k = 0 THEN <<>> ELSE <<n % 256>> \o Bytes(n \div 256, k - 1)

RECURSIVE ColumnSum(_, _, _, _)
\* Sum of a[i] * b[k + 1 - i] for i in 1..j.
ColumnSum(a, b, k, j) ==
    IF j = 0 THEN 0 ELSE a[j] * b[k + 1 - j] + ColumnSum(a, b, k, j - 1)

RECURSIVE MulFrom(_, _, _, _)
MulFrom(a, b, k, carry) ==
    IF k > 8 THEN <<>>
    ELSE LET s == carry + ColumnSum(a, b, k, k)
         IN  <<s % 256>> \o MulFrom(a, b, k + 1, s \div 256)

\* u64::wrapping_mul: the product modulo 2^64.
WrappingMul(a, b) == MulFrom(a, b, 1, 0)

RECURSIVE BitOr(_, _)
BitOr(x, y) ==
    IF x = 0 THEN y
    ELSE IF y = 0 THEN x
    ELSE 2 * BitOr(x \div 2, y \div 2) + (IF x % 2 = 1 \/ y % 2 = 1 THEN 1 ELSE 0)

RECURSIVE BitAnd(_, _)
BitAnd(x, y) ==
    IF x = 0 \/ y = 0 THEN 0
    ELSE 2 * BitAnd(x \div 2, y \div 2) + (IF x % 2 = 1 /\ y % 2 = 1 THEN 1 ELSE 0)

RECURSIVE Pow2(_)
Pow2(k) == IF k = 0 THEN 1 ELSE 2 * Pow2(k - 1)

\* x << k, for values that stay below 2^31.
Shl(x, k) == x * Pow2(k)

Zero64 == <<0, 0, 0, 0, 0, 0, 0, 0>>

\* const ID_MUL: u64 = 0xF89A4B715E26C30D, least significant byte first.
ID_MUL == <<13, 195, 38, 94, 113, 75, 154, 248>>

\* node: node & 0x3FF
NODE_MASK == 1023
\* guard.counter == 0xFFF
COUNTER_MAX == 4095
\* timestamp << 22
TIMESTAMP_SHIFT == 22
\* node << 12
NODE_SHIFT == 12

----------------------------------------------------------------------------
(* AssetIdContext                                                           *)

Ctxs == {1, 2}
Threads == {1, 2}
Times == -1 .. MaxTime
\* 16-bit node salts the contexts are constructed with.
Salts == {0, 1, 1024}

NoThread == 0

\* AssetIdContext::new(epoch, node)
NewContext(salt) ==
    [node |-> BitAnd(salt, NODE_MASK), salt |-> salt, counter |-> 0,
     last_timestamp |-> 0, holder |-> NoThread, poisoned |-> FALSE]

\* SystemTime::now().duration_since(self.epoch): Err when now is before the epoch.
BeforeEpoch(reading) == reading < 0

\* if guard.last_timestamp > timestamp { panic!("Time goes backwards") }
TimeWentBackwardsOrEqual(last, timestamp) == last >= timestamp
TimeWentBackwards(last, timestamp) == last > timestamp

\* guard.last_timestamp == timestamp && guard.counter == 0xFFF: throttle.
Throttled(c, timestamp) ==
    c.last_timestamp = timestamp /\ c.counter = COUNTER_MAX

\* The counter after the if/else of lines 172..182 (not throttled).
NextCounterNoIncrement(c, timestamp) ==
    IF c.last_timestamp = timestamp THEN c.counter ELSE 1
NextCounter(c, timestamp) ==
    IF c.last_timestamp = timestamp THEN c.counter + 1 ELSE 1

\* The context data after a call that returns: only the counter is written;
\* no line of generate() assigns last_timestamp.
AfterGenerate(c, timestamp) ==
    [c EXCEPT !.counter = NextCounter(c, timestamp)]

\* (timestamp << 22) | (node << 12) | counter
PreScramble(timestamp, node, counter) ==
    BitOr(BitOr(Shl(timestamp, TIMESTAMP_SHIFT), Shl(node, NODE_SHIFT)), counter)

\* id.wrapping_mul(ID_MUL)
ScrambleEven(pre) == WrappingMul(Bytes(pre, 8), <<0, 0, 0, 0, 0, 0, 0, 1>>)
Scramble(pre) == WrappingMul(Bytes(pre, 8), ID_MUL)

MakeId(c, timestamp) ==
    Scramble(PreScramble(timestamp, c.node, NextCounter(c, timestamp)))

IdleThread ==
    [pc |-> "idle", c |-> 1, reading |-> 0, timestamp |-> 0, why |-> ""]

Running(t) == thr[t].pc \notin {"idle", "panicked"}

\* Calls of generate() started so far and not lost to a panic.
Started == ncalls[1] + ncalls[2] + Cardinality({t \in Threads : Running(t)})

\* Lines 160..164: the loop head reads the clock; expect() panics before the epoch.
\* A thread enters from a new call (on any context) or from the throttle's continue.
GenRead(t, c) ==
    /\ \/ thr[t].pc = "idle" /\ (track => Started < MaxCalls)
       \/ thr[t].pc = "retry" /\ c = thr[t].c
    /\ thr' = [thr EXCEPT ![t] =
            IF BeforeEpoch(now)
            THEN [@ EXCEPT !.pc = "panicked", !.c = c, !.reading = now, !.why = "epoch"]
            ELSE [@ EXCEPT !.pc = "read", !.c = c, !.reading = now, !.timestamp = now]]
    /\ UNCHANGED <<laterVars, now, ctx, issued, ncalls, track, storeVars, pathVars>>

\* Line 166: self.data.lock().unwrap() blocks while another thread holds the
\* mutex and panics when the mutex is poisoned.
GenLock(t) ==
    /\ thr[t].pc = "read"
    /\ ctx[thr[t].c].holder = NoThread
    /\ IF ctx[thr[t].c].poisoned
       THEN /\ thr' = [thr EXCEPT ![t].pc = "panicked", ![t].why = "poisoned"]
            /\ ctx' = ctx
       ELSE /\ thr' = [thr EXCEPT ![t].pc = "locked"]
            /\ ctx' = [ctx EXCEPT ![thr[t].c].holder = t]
    /\ UNCHANGED <<laterVars, now, issued, ncalls, track, storeVars, pathVars>>

\* Lines 168..190 under the lock: the backwards check, the throttle, the counter,
\* the id and its NonZeroU64 check. Returning (or panicking) drops the guard.
GenBody(t) ==
    /\ thr[t].pc = "locked"
    /\ LET c == thr[t].c
           d == ctx[c]
           ts == thr[t].timestamp
       IN  IF TimeWentBackwards(d.last_timestamp, ts)
           THEN /\ thr' = [thr EXCEPT ![t].pc = "panicked", ![t].why = "backwards"]
                /\ ctx' = [ctx EXCEPT ![c].holder = NoThread, ![c].poisoned = TRUE]
                /\ UNCHANGED <<laterVars, issued, ncalls>>
           ELSE IF Throttled(d, ts)
           THEN /\ thr' = [thr EXCEPT ![t].pc = "sleeping"]
                /\ UNCHANGED <<laterVars, ctx, issued, ncalls>>
           ELSE IF MakeId(d, ts) = Zero64
           THEN /\ thr' = [thr EXCEPT ![t].pc = "panicked", ![t].why = "zero"]
                /\ ctx' = [ctx EXCEPT ![c] = [AfterGenerate(d, ts) EXCEPT
                                                !.holder = NoThread, !.poisoned = TRUE]]
                /\ UNCHANGED <<laterVars, issued, ncalls>>
           ELSE /\ thr' = [thr EXCEPT ![t] = IdleThread]
                /\ ctx' = [ctx EXCEPT ![c] = [AfterGenerate(d, ts) EXCEPT
                                                !.holder = NoThread]]
                /\ issued' = IF track
                             THEN [issued EXCEPT ![c] = @ \cup {MakeId(d, ts)}]
                             ELSE issued
                /\ ncalls' = IF track THEN [ncalls EXCEPT ![c] = @ + 1] ELSE ncalls
    /\ UNCHANGED <<laterVars, now, track, storeVars, pathVars>>

\* Lines 175..176: std::thread::sleep(1 ms) with the guard alive, then continue,
\* which drops the guard and goes back to the loop head.
GenWake(t) ==
    /\ thr[t].pc = "sleeping"
    /\ thr' = [thr EXCEPT ![t].pc = "retry"]
    /\ ctx' = [ctx EXCEPT ![thr[t].c].holder = NoThread]
    /\ UNCHANGED <<laterVars, now, issued, ncalls, track, storeVars, pathVars>>

\* The wall clock (SystemTime) moves, forwards or backwards.
Tick ==
    /\ \E r \in Times \ {now} : now' = r
    /\ UNCHANGED <<laterVars, idVars, storeVars, pathVars>>

----------------------------------------------------------------------------
(* HashSha256 and its hex rendering (store/src/sha256.rs). A hash is a        *)
(* sequence of 32 bytes, a hex string a sequence of characters: the digits   *)
(* are 0..15, NUL is the only other character.                               *)

NUL == 16

\* The hex digits of a sequence of bytes, two per byte, most significant first.
Nibbles(bytes) ==
    [i \in 1 .. 2 * Len(bytes) |->
        IF i % 2 = 1 THEN bytes[(i + 1) \div 2] \div 16 ELSE bytes[i \div 2] % 16]

RECURSIVE StripZeros(_)
\* write!(f, "{:x}", v) of an integer: no leading zeros, one digit at least.
StripZeros(ds) ==
    IF Len(ds) > 1 /\ Head(ds) = 0 THEN StripZeros(Tail(ds)) ELSE ds

\* impl LowerHex for HashSha256: each chunk of 16 bytes as one u128, "{:x}".
LowerHex(h) ==
    StripZeros(Nibbles(SubSeq(h, 1, 16))) \o StripZeros(Nibbles(SubSeq(h, 17, 32)))

\* value.to_be_bytes() of the u128 that 32 hex digits denote.
ToBeBytes(ds) == [i \in 1 .. 16 |-> 16 * ds[2 * i - 1] + ds[2 * i]]

\* impl FromStr for HashSha256: two chunks of 32 characters, each parsed by
\* u128::from_str_radix(.., 16); what follows the 64th character is ignored.
FromStr(str) ==
    IF Len(str) < 32 THEN [ok |-> FALSE, err |-> "NotEnoughDigits"]
    ELSE IF \E i \in 1 .. 32 : str[i] = NUL THEN [ok |-> FALSE, err |-> "ParseIntError"]
    ELSE IF Len(str) < 64 THEN [ok |-> FALSE, err |-> "NotEnoughDigits"]
    ELSE IF \E i \in 33 .. 64 : str[i] = NUL THEN [ok |-> FALSE, err |-> "ParseIntError"]
    ELSE [ok |-> TRUE,
          bytes |-> ToBeBytes(SubSeq(str, 1, 32)) \o ToBeBytes(SubSeq(str, 33, 64))]

\* Halves of hashes: a leading byte and fifteen equal bytes after it.
Leads == {0, 1, 16, 171}
Fills == {0, 18, 255}
Half(lead, fill) == <<lead>> \o [i \in 1 .. 15 |-> fill]
Hashes == {Half(a, b) \o Half(c, d) : a \in Leads, b \in Fills, c \in Leads, d \in Fills}

NoConv == [stage |-> "none", hash |-> <<>>, str |-> <<>>, parsed |-> FromStr(<<>>)]

\* format!("{:x}", hash)
Render ==
    /\ conv.stage = "hash"
    /\ conv' = [conv EXCEPT !.stage = "rendered", !.str = LowerHex(conv.hash)]
    /\ UNCHANGED <<laterVars, now, idVars, storeVars, walk, dir, jobs, placed, metaVars>>

\* str.parse::<HashSha256>()
Parse ==
    /\ conv.stage = "rendered"
    /\ conv' = [conv EXCEPT !.stage = "parsed", !.parsed = FromStr(conv.str)]
    /\ UNCHANGED <<laterVars, now, idVars, storeVars, walk, dir, jobs, placed, metaVars>>

----------------------------------------------------------------------------
(* with_path_candidates (store/src/meta.rs 453..481). A file name is the     *)
(* stem and the number after ':' (NoSuffix when there is no ':').            *)

PREFIX_STARTING_LEN == 8
NoSuffix == -1

\* &hex[..len]
PrefixName(hex, len) == [stem |-> SubSeq(hex, 1, len), suffix |-> NoSuffix]
\* format!("{}:{}", hex, suffix)
SuffixName(hex, suffix) == [stem |-> hex, suffix |-> suffix]

NoWalk ==
    [hex |-> <<>>, loop |-> "none", len |-> 0, suffix |-> 0,
     visited |-> <<>>, answers |-> <<>>, outcome |-> "none"]

\* Entry: the first loop runs over PREFIX_STARTING_LEN..=hex.len(), which is
\* empty for a hex string shorter than PREFIX_STARTING_LEN.
StartWalk(hex) ==
    [hex |-> hex,
     loop |-> IF PREFIX_STARTING_LEN <= Len(hex) THEN "prefix" ELSE "suffix",
     len |-> IF PREFIX_STARTING_LEN <= Len(hex) THEN PREFIX_STARTING_LEN ELSE Len(hex),
     suffix |-> 0, visited |-> <<>>, answers |-> <<>>, outcome |-> "running"]

\* The arguments of the next call of f: (len, 0, base/hex[..len]) in the first
\* loop, (hex.len(), suffix, base/"hex:suffix") in the second.
Candidate(w) ==
    [prefix |-> w.len, suffix |-> w.suffix,
     path |-> IF w.loop = "prefix" THEN PrefixName(w.hex, w.len)
              ELSE SuffixName(w.hex, w.suffix)]

\* Ok(None) => {}: the next iteration.
AdvanceToSuffixes(w) ==
    IF w.loop = "prefix"
    THEN [w EXCEPT !.loop = "suffix", !.len = Len(w.hex), !.suffix = 0]
    ELSE [w EXCEPT !.suffix = @ + 1]
Advance(w) ==
    IF w.loop = "prefix"
    THEN IF w.len < Len(w.hex) THEN [w EXCEPT !.len = @ + 1]
         ELSE [w EXCEPT !.loop = "suffix", !.len = Len(w.hex), !.suffix = 0]
    ELSE [w EXCEPT !.suffix = @ + 1]

\* match f(len, suffix, path): Ok(None) goes on, Ok(Some(ok)) and Err return.
Visit(w, answer) ==
    LET seen == [w EXCEPT !.visited = Append(@, Candidate(w)),
                          !.answers = Append(@, answer)]
    IN  CASE answer = "Collision" -> Advance(seen)
          [] answer = "Found" -> [seen EXCEPT !.outcome = "found"]
          [] answer = "Error" -> [seen EXCEPT !.outcome = "error"]

\* The loop has a candidate to try (within the suffixes followed).
CanVisit(w) ==
    /\ w.outcome = "running"
    /\ w.loop = "suffix" => w.suffix <= MaxSuffix


\* Hex strings with_path_candidates is called with: renderings of 64, 63, 9
\* and 3 characters.
WalkHashes ==
    {Half(171, 18) \o Half(171, 18), Half(1, 18) \o Half(171, 18),
     Half(0, 0) \o ([i \in 1 .. 12 |-> 0] \o <<171, 171, 171, 171>>),
     Half(0, 0) \o ([i \in 1 .. 15 |-> 0] \o <<171>>)}

\* with_path_candidates(hex, base, f) is called.
WalkStart(h) ==
    /\ walk.outcome = "none"
    /\ walk' = StartWalk(LowerHex(h))
    /\ UNCHANGED <<laterVars, now, idVars, storeVars, hexVars, metaVars, dir, jobs, placed>>

\* One iteration: f is called with the candidate and answers.
WalkVisit(answer) ==
    /\ CanVisit(walk)
    /\ walk' = Visit(walk, answer)
    /\ UNCHANGED <<laterVars, now, idVars, storeVars, hexVars, metaVars, dir, jobs, placed>>

----------------------------------------------------------------------------
(* AssetMeta::new: artifact placement (store/src/meta.rs 58..136).           *)

Procs == {1, 2}

\* Contents of importer outputs (byte sequences).
Contents == {<<1>>, <<2>>, <<1, 2>>, <<3>>, <<4>>}

ZeroBytes(n) == [i \in 1 .. n |-> 0]

\* HashSha256::file_hash as a table: the hashes of <<1>>, <<2>> and <<1, 2>>
\* share their first 32 hex digits, those of <<3>> and <<4>> are 0x1 | 0x23 and
\* 0x12 | 0x3 (upper | lower half).
FileHash(content) ==
    CASE content = <<1>> -> Half(171, 18) \o Half(171, 18)
      [] content = <<2>> -> Half(171, 18) \o Half(1, 18)
      [] content = <<1, 2>> -> Half(171, 18) \o Half(16, 18)
      [] content = <<3>> -> (ZeroBytes(15) \o <<1>>) \o (ZeroBytes(15) \o <<35>>)
      [] content = <<4>> -> (ZeroBytes(15) \o <<18>>) \o (ZeroBytes(15) \o <<3>>)

EmptyDir == <<>>
RegularFile(content) == [kind |-> "file", content |-> content]
Folder == [kind |-> "dir", content |-> <<>>]

\* The directory with an entry created or replaced under a name.
WithEntry(d, name, entry) ==
    [n \in DOMAIN d \cup {name} |-> IF n = name THEN entry ELSE d[n]]

\* path.metadata(): Err(_), Ok(meta) with meta.is_file(), or Ok(_).
Metadata(d, name) ==
    IF name \notin DOMAIN d THEN "absent"
    ELSE IF d[name].kind = "file" THEN "file" ELSE "other"

\* files_eq: the sizes, then the bytes.
FilesEqBySize(lhs, rhs) == Len(lhs) = Len(rhs)
FilesEqNever(lhs, rhs) == FALSE
FilesEq(lhs, rhs) ==
    IF Len(lhs) # Len(rhs) THEN FALSE
    ELSE \A i \in 1 .. Len(lhs) : lhs[i] = rhs[i]

\* make_artifact_path: hex[..prefix], with ":suffix" unless the suffix is 0.
MakeArtifactPath(m) ==
    IF m.suffix = 0 THEN [stem |-> SubSeq(LowerHex(m.sha256), 1, m.prefix),
                          suffix |-> NoSuffix]
    ELSE [stem |-> SubSeq(LowerHex(m.sha256), 1, m.prefix), suffix |-> m.suffix]

IdleJob ==
    [state |-> "idle", id |-> Zero64, content |-> <<>>, output |-> FALSE,
     seen |-> "none", dir0 |-> EmptyDir, walk |-> NoWalk]

\* How self.id_ctx.generate() ends on a clock reading (lib.rs 425).
GenerateEnds(c, r) ==
    IF BeforeEpoch(r) \/ TimeWentBackwards(c.last_timestamp, r) THEN "panic"
    ELSE IF Throttled(c, r) THEN "throttle"
    ELSE IF MakeId(c, r) = Zero64 THEN "panic"
    ELSE "ok"

\* lib.rs 425 and meta.rs 58..75: the id is generated, the output is hashed,
\* the candidate loop is entered.
PlaceStart(p, content, r) ==
    /\ jobs[p].state \in {"idle", "done"}
    /\ Len(placed) + Cardinality({q \in Procs : jobs[q].state \in {"walking", "checked"}})
          < MaxPlacements
    /\ GenerateEnds(ctx[1], r) # "throttle"
    /\ now' = r
    /\ IF GenerateEnds(ctx[1], r) = "panic"
       THEN /\ jobs' = [jobs EXCEPT ![p] = [IdleJob EXCEPT !.state = "panicked"]]
            /\ ctx' = ctx
       ELSE /\ jobs' = [jobs EXCEPT ![p] =
                  [state |-> "walking", id |-> MakeId(ctx[1], r), content |-> content,
                   output |-> TRUE, seen |-> "none", dir0 |-> dir,
                   walk |-> StartWalk(LowerHex(FileHash(content)))]]
            /\ ctx' = [ctx EXCEPT ![1] = AfterGenerate(ctx[1], r)]
    /\ UNCHANGED <<laterVars, thr, issued, ncalls, track, storeVars, metaVars, hexVars, walk, dir,
                   placed>>

\* meta.rs 76: the closure looks at the candidate: path.metadata().
PlaceCheck(p) ==
    /\ jobs[p].state = "walking"
    /\ CanVisit(jobs[p].walk)
    /\ jobs' = [jobs EXCEPT ![p].state = "checked",
                            ![p].seen = Metadata(dir, Candidate(jobs[p].walk).path)]
    /\ UNCHANGED <<laterVars, now, idVars, storeVars, hexVars, metaVars, walk, dir, placed>>

\* The AssetMeta the closure returns for a candidate.
NewAssetMeta(job, cand) ==
    [id |-> job.id, sha256 |-> FileHash(job.content), prefix |-> cand.prefix,
     suffix |-> cand.suffix, artifact_path |-> cand.path, content |-> job.content]

\* meta.rs 77..134: what the closure does on what metadata() returned:
\* rename the output onto the path, or compare and remove the output, or
\* report a collision.
PlaceAct(p) ==
    /\ jobs[p].state = "checked"
    /\ LET job == jobs[p]
           cand == Candidate(job.walk)
           eq == /\ job.seen = "file"
                 /\ FilesEq(job.content, dir[cand.path].content)
           answer == IF job.seen = "absent" \/ eq THEN "Found" ELSE "Collision"
       IN  /\ dir' = IF job.seen = "absent"
                     THEN WithEntry(dir, cand.path, RegularFile(job.content))
                     ELSE dir
           /\ jobs' = [jobs EXCEPT ![p] =
                  [job EXCEPT !.state = IF answer = "Found" THEN "done" ELSE "walking",
                              !.output = IF answer = "Found" THEN FALSE ELSE @,
                              !.seen = "none",
                              !.walk = Visit(job.walk, answer)]]
           /\ placed' = IF answer = "Found"
                        THEN Append(placed, NewAssetMeta(job, cand))
                        ELSE placed
    /\ UNCHANGED <<laterVars, now, idVars, storeVars, hexVars, metaVars, walk>>

\* The candidate loop and the artifacts directory before anything ran.
PlaceAtRest(d) ==
    /\ walk = NoWalk
    /\ dir = d
    /\ jobs = [p \in Procs |-> IdleJob]
    /\ placed = <<>>


\* Artifacts directories placements start from: empty, or with a directory
\* under the first candidate name of <<1>>.
InitialDirs ==
    {EmptyDir,
     WithEntry(EmptyDir, PrefixName(LowerHex(FileHash(<<1>>)), PREFIX_STARTING_LEN),
               Folder)}

\* An artifacts directory in which every prefix name of the hash of <<1>> is
\* taken by a directory.
CrowdedDir ==
    [n \in {PrefixName(LowerHex(FileHash(<<1>>)), len) :
                len \in PREFIX_STARTING_LEN .. Len(LowerHex(FileHash(<<1>>)))}
        |-> Folder]

----------------------------------------------------------------------------
(* SourceMeta: the meta files of sources (store/src/meta.rs 194..451).       *)

\* Sources inside the treasury base and outside of it.
LocalUrls == {"l1"}
ExtUrls == {"e1", "e2", "e3", "e4"}
MetaUrls == LocalUrls \cup ExtUrls

\* HashSha256::new(source.as_str()) as a table: the hashes of e1 and e2 share
\* their first 32 hex digits, those of e3 and e4 are 0x1 | 0x23 and 0x12 | 0x3.
UrlHash(u) ==
    CASE u = "e1" -> Half(171, 18) \o Half(171, 18)
      [] u = "e2" -> Half(171, 18) \o Half(1, 18)
      [] u = "e3" -> (ZeroBytes(15) \o <<1>>) \o (ZeroBytes(15) \o <<35>>)
      [] u = "e4" -> (ZeroBytes(15) \o <<18>>) \o (ZeroBytes(15) \o <<3>>)
      [] OTHER -> Half(16, 255) \o Half(16, 255)

\* Keys of assets in a source meta: (format, target).
Keys == {<<"f", "t">>, <<"f", "t2">>}

Reverse(seq) == [i \in 1 .. Len(seq) |-> seq[Len(seq) + 1 - i]]

\* impl Serialize for AssetId: "{:016x}", sixteen zero-padded digits.
IdToStr(id) == Nibbles(Reverse(id))

\* impl FromStr for AssetId: u64::from_str_radix(s, 16), zero rejected.
IdFromStr(str) ==
    IF str = <<>> \/ (\E i \in DOMAIN str : str[i] = NUL)
    THEN [ok |-> FALSE, id |-> Zero64]
    ELSE IF Len(StripZeros(str)) > 16 \/ StripZeros(str) = <<0>>
    THEN [ok |-> FALSE, id |-> Zero64]
    ELSE [ok |-> TRUE,
          id |-> Reverse([i \in 1 .. 8 |->
                    LET ds == [k \in 1 .. 16 - Len(StripZeros(str)) |-> 0]
                                  \o StripZeros(str)
                    IN  16 * ds[2 * i - 1] + ds[2 * i]])]

\* impl Serialize for HashSha256: "{:x}" written into a buffer of 64 zero
\* bytes, the whole buffer serialized as the string.
HashToStr(h) == LowerHex(h) \o [i \in 1 .. 64 - Len(LowerHex(h)) |-> NUL]

\* Serialize of AssetMeta: the prefix is skipped when it is
\* PREFIX_STARTING_LEN, the suffix when it is 0; artifact_path is skipped.
SerializeAsset(a) ==
    [id |-> IdToStr(a.id), sha256 |-> HashToStr(a.sha256),
     prefix |-> IF a.prefix = PREFIX_STARTING_LEN THEN <<>> ELSE <<a.prefix>>,
     suffix |-> IF a.suffix = 0 THEN <<>> ELSE <<a.suffix>>]

\* Deserialize of AssetMeta: default_prefix() and 0 for the skipped fields.
AssetDecodes(t) == IdFromStr(t.id).ok /\ FromStr(t.sha256).ok
DeserializeAsset(t) ==
    [id |-> IdFromStr(t.id).id, sha256 |-> FromStr(t.sha256).bytes,
     prefix |-> IF t.prefix = <<>> THEN PREFIX_STARTING_LEN ELSE t.prefix[1],
     suffix |-> IF t.suffix = <<>> THEN 0 ELSE t.suffix[1]]

\* toml::to_string_pretty of the assets / toml::from_slice of them.
SerializeAssets(assets) == [k \in DOMAIN assets |-> SerializeAsset(assets[k])]
AssetsDecode(toml) == \A k \in DOMAIN toml : AssetDecodes(toml[k])
DeserializeAssets(toml) == [k \in DOMAIN toml |-> DeserializeAsset(toml[k])]

NoAssets == <<>>
\* A meta file: the stored URL ("" in a sidecar, whose URL is its path) and
\* the serialized assets.
MetaFile(url, assets) ==
    [kind |-> "file", url |-> url, assets |-> SerializeAssets(assets)]

\* read_with_url_from succeeds on a path.
ReadsWithUrl(d, name) ==
    /\ Metadata(d, name) = "file"
    /\ d[name].url # "garbage"
    /\ AssetsDecode(d[name].assets)

\* The closure of get_meta_path (meta.rs 416..450) on a candidate: a free name
\* is occupied by a new meta for the source; a file that decodes to a meta of
\* the source is found; anything else is a collision.
MetaVisitAnyMeta(d, u, cand) ==
    IF Metadata(d, cand.path) = "absent"
    THEN [answer |-> "Found", dir |-> WithEntry(d, cand.path, MetaFile(u, NoAssets))]
    ELSE IF ReadsWithUrl(d, cand.path)
    THEN [answer |-> "Found", dir |-> d]
    ELSE [answer |-> "Collision", dir |-> d]
MetaVisit(d, u, cand) ==
    IF Metadata(d, cand.path) = "absent"
    THEN [answer |-> "Found", dir |-> WithEntry(d, cand.path, MetaFile(u, NoAssets))]
    ELSE IF ReadsWithUrl(d, cand.path) /\ d[cand.path].url = u
    THEN [answer |-> "Found", dir |-> d]
    ELSE [answer |-> "Collision", dir |-> d]

RECURSIVE MetaWalk(_, _, _)
\* with_path_candidates(&hex, external, closure) run to its end (or as far as
\* the suffixes are followed).
MetaWalk(w, d, u) ==
    IF ~CanVisit(w) THEN [walk |-> w, dir |-> d]
    ELSE IF MetaVisit(d, u, Candidate(w)).answer = "Found"
    THEN [walk |-> Visit(w, "Found"), dir |-> MetaVisit(d, u, Candidate(w)).dir]
    ELSE MetaWalk(Visit(w, "Collision"), d, u)

\* get_meta_path for an external source: the path and the directory after it.
ExternalMetaPath(d, u) ==
    LET end == CHOOSE e \in {MetaWalk(StartWalk(LowerHex(UrlHash(u))), d, u)} : TRUE
    IN  [found |-> end.walk.outcome = "found",
         path |-> end.walk.visited[Len(end.walk.visited)].path,
         dir |-> end.dir]

\* get_meta_path for a local source (meta.rs 378..400): the sibling file is
\* created with no assets when it does not exist.
SidecarAfterLookup(sc, u) ==
    IF sc[u] = <<>> THEN [sc EXCEPT ![u] = <<MetaFile("", NoAssets)>>] ELSE sc

\* The path of a sidecar file (one per local source).
LocalPath == PrefixName(<<>>, 0)

NotOpened ==
    [url |-> "", ok |-> FALSE, stored_url |-> "", path |-> LocalPath,
     assets |-> NoAssets]

\* SourceMeta::new(source): get_meta_path, then SourceMeta::open reads the
\* file; what it returns and the file system after it.
SourceMetaNew(ext, sc, u) ==
    IF u \in LocalUrls
    THEN LET file == SidecarAfterLookup(sc, u)[u][1]
         IN  [found |-> TRUE, external |-> ext, sidecar |-> SidecarAfterLookup(sc, u),
              opened |-> [url |-> u, ok |-> AssetsDecode(file.assets),
                          stored_url |-> u, path |-> LocalPath,
                          assets |-> IF AssetsDecode(file.assets)
                                     THEN DeserializeAssets(file.assets)
                                     ELSE NoAssets]]
    ELSE LET mp == ExternalMetaPath(ext, u)
             file == mp.dir[mp.path]
         IN  [found |-> mp.found, external |-> mp.dir, sidecar |-> sc,
              opened |-> [url |-> u, ok |-> ReadsWithUrl(mp.dir, mp.path),
                          stored_url |-> file.url, path |-> mp.path,
                          assets |-> IF ReadsWithUrl(mp.dir, mp.path)
                                     THEN DeserializeAssets(file.assets)
                                     ELSE NoAssets]]

\* A lookup: SourceMeta::new(source, base, external).
MetaLookup(u) ==
    /\ \E n \in {SourceMetaNew(external, sidecar, u)} :
          /\ n.found
          /\ external' = n.external
          /\ sidecar' = n.sidecar
          /\ opened' = n.opened
          /\ resolved' = [resolved EXCEPT ![u] = @ \cup {n.opened.path}]
    /\ UNCHANGED <<laterVars, now, idVars, storeVars, hexVars, walk, dir, jobs, placed, stored, adds>>

\* Assets add_asset is called with.
AssetSamples ==
    {[id |-> <<13, 195, 38, 94, 113, 75, 154, 248>>,
      sha256 |-> Half(171, 18) \o Half(171, 18), prefix |-> PREFIX_STARTING_LEN,
      suffix |-> 0],
     [id |-> <<13, 195, 38, 94, 113, 75, 154, 0>>,
      sha256 |-> Half(171, 18) \o Half(171, 18), prefix |-> 9, suffix |-> 1],
     [id |-> <<13, 195, 38, 94, 113, 75, 154, 248>>,
      sha256 |-> Half(171, 18) \o Half(1, 18), prefix |-> PREFIX_STARTING_LEN,
      suffix |-> 0],
     [id |-> <<13, 195, 38, 94, 113, 75, 154, 0>>,
      sha256 |-> Half(171, 18) \o Half(1, 18), prefix |-> 9, suffix |-> 1]}

\* The assets with one more under a key.
WithAssetOnly(assets, k, a) == [x \in {k} |-> a]
WithAsset(assets, k, a) ==
    [x \in DOMAIN assets \cup {k} |-> IF x = k THEN a ELSE assets[x]]

\* SourceMeta::new(source) followed by meta.add_asset(format, target, asset)
\* (lib.rs 260 and 456; meta.rs 249..278): the entry is inserted in memory
\* (an occupied key panics), get_meta_path is run again for the meta's URL and
\* the meta is written there.
MetaAddAsset(u, k, a) ==
    \E n \in {SourceMetaNew(external, sidecar, u)} :
    \E again \in {IF u \in ExtUrls /\ n.found THEN ExternalMetaPath(n.external, u)
                  ELSE [found |-> TRUE, path |-> LocalPath, dir |-> n.external]} :
    LET assets == WithAsset(n.opened.assets, k, a)
    IN  /\ n.found
        /\ adds < MaxAdds
        /\ opened' = NotOpened
        /\ resolved' = [resolved EXCEPT ![u] = @ \cup {n.opened.path}]
        /\ IF ~n.opened.ok \/ k \in DOMAIN n.opened.assets
           THEN /\ external' = n.external
                /\ sidecar' = n.sidecar
                /\ stored' = stored
                /\ adds' = adds
           ELSE /\ u \in ExtUrls => again.found
                /\ external' = IF u \in ExtUrls
                               THEN WithEntry(again.dir, again.path, MetaFile(u, assets))
                               ELSE n.external
                /\ sidecar' = IF u \in LocalUrls
                              THEN [n.sidecar EXCEPT ![u] = <<MetaFile("", assets)>>]
                              ELSE n.sidecar
                /\ stored' = [stored EXCEPT ![u] = WithAsset(@, k, a)]
                /\ adds' = adds + 1
        /\ UNCHANGED <<laterVars, now, idVars, storeVars, hexVars, walk, dir, jobs, placed>>

\* External directories lookups start from: empty, a directory under the
\* first candidate name of e1, an undecodable file under that of e3.
InitialExternals ==
    {EmptyDir,
     WithEntry(EmptyDir, PrefixName(LowerHex(UrlHash("e1")), PREFIX_STARTING_LEN),
               Folder),
     WithEntry(EmptyDir, SuffixName(LowerHex(UrlHash("e3")), 0),
               [kind |-> "file", url |-> "garbage", assets |-> NoAssets])}

\* The meta files before any lookup.
MetaAtRest(e) ==
    /\ external = e
    /\ sidecar = [u \in LocalUrls |-> <<>>]
    /\ opened = NotOpened
    /\ stored = [u \in MetaUrls |-> NoAssets]
    /\ resolved = [u \in MetaUrls |-> {}]
    /\ adds = 0

PathsAtRest == PlaceAtRest(EmptyDir) /\ MetaAtRest(EmptyDir) /\ conv = NoConv

----------------------------------------------------------------------------
(* Importers: the registry of importers (store/src/importer/mod.rs).        *)
(* Option<&str> is the empty set or a singleton.                            *)

ImpTargets == {"t", "u"}
ImpFormats == {"p", "q"}
ImpExtensions == {"e", "g"}
\* The importers add_importer is called with: the name is the position in the
\* order of registration.
ImporterSamples(name) ==
    [name : {name}, target : ImpTargets,
     formats : {<<"p">>, <<"q">>, <<"p", "q">>},
     extensions : {<<>>, <<"e">>, <<"e", "g">>}]

\* Importers::new()
NoTargets == <<>>

\* ToTarget { importers: Vec::new(), formats: HashMap::new(), extensions: .. }
EmptyToTarget == [importers |-> <<>>, formats |-> <<>>, extensions |-> <<>>]

\* Every key of the list gets idx, also a key the map holds.
InsertAlways(map, keys, idx) ==
    [k \in DOMAIN map \cup {keys[i] : i \in DOMAIN keys} |->
        IF \E i \in DOMAIN keys : keys[i] = k THEN idx ELSE map[k]]

RECURSIVE InsertVacant(_, _, _)
\* mod.rs 137..151 and 153..167: every key of the list that the map does not
\* hold yet is inserted with idx; a key it holds keeps its index.
InsertVacant(map, keys, idx) ==
    IF keys = <<>> THEN map
    ELSE InsertVacant(
            IF Head(keys) \in DOMAIN map THEN map
            ELSE [k \in DOMAIN map \cup {Head(keys)} |->
                     IF k = Head(keys) THEN idx ELSE map[k]],
            Tail(keys), idx)

\* The ToTarget of a target after add_importer: on a vacant target (mod.rs
\* 112..132) the keys get index 0, on an occupied one (133..170) the index the
\* importer is pushed at (counted from 0).
ToTargetWithFirstFormats(tt, importer) ==
    [importers |-> Append(tt.importers, importer),
     formats |-> IF tt.importers = <<>>
                 THEN InsertVacant(tt.formats, importer.formats, 0) ELSE tt.formats,
     extensions |-> InsertVacant(tt.extensions, importer.extensions, Len(tt.importers))]
ToTargetWith(tt, importer) ==
    [importers |-> Append(tt.importers, importer),
     formats |-> InsertVacant(tt.formats, importer.formats, Len(tt.importers)),
     extensions |-> InsertVacant(tt.extensions, importer.extensions, Len(tt.importers))]

\* Importers::add_importer
AddImporterTo(r, importer) ==
    [t \in DOMAIN r \cup {importer.target} |->
        IF t = importer.target
        THEN ToTargetWith(IF t \in DOMAIN r THEN r[t] ELSE EmptyToTarget, importer)
        ELSE r[t]]

NotGuessed == [kind |-> "none", importer |-> {}, formats |-> {}]
GuessedImporter(importer) == [kind |-> "found", importer |-> {importer}, formats |-> {}]
\* Err(CannotDecideOnImporter { target, formats })
CannotDecideOnImporter(formats) ==
    [kind |-> "cannot_decide", importer |-> {}, formats |-> formats]

\* Importers::guess(format, extension, target); indices count from 0.
Guess(r, format, extension, target) ==
    IF target \notin DOMAIN r THEN NotGuessed
    ELSE LET to_target == r[target]
         IN  IF format = {}
             THEN IF extension = {}
                  THEN IF Len(to_target.importers) = 1
                       THEN GuessedImporter(to_target.importers[1])
                       ELSE CannotDecideOnImporter(DOMAIN to_target.formats)
                  ELSE IF \A e \in extension : e \notin DOMAIN to_target.extensions
                  THEN NotGuessed
                  ELSE GuessedImporter(
                          to_target.importers[
                              to_target.extensions[CHOOSE e \in extension : TRUE] + 1])
             ELSE IF \A f \in format : f \notin DOMAIN to_target.formats
             THEN NotGuessed
             ELSE GuessedImporter(
                     to_target.importers[to_target.formats[CHOOSE f \in format : TRUE] + 1])

\* Importers::register_importer / the loop of load_dylib_importers: one
\* add_importer.
AddImporter(importer) ==
    /\ Len(added) < MaxImporters
    /\ reg' = AddImporterTo(reg, importer)
    /\ added' = Append(added, importer)
    /\ UNCHANGED <<restVars, now, idVars, storeVars, pathVars, ffiVars, ldVars, srvVars>>

ImportersAtRest ==
    /\ reg = NoTargets
    /\ added = <<>>

----------------------------------------------------------------------------
(* The import function across the FFI (import/src/lib.rs). Bytes are 0..255. *)
(* Strings and buffers are sequences of runs [b, n]: n times the byte b.     *)

RESULT_BUF_LEN_START == 1024
ANY_BUF_LEN_LIMIT == 65536

REQUIRE_SOURCES == 2
REQUIRE_DEPENDENCIES == 1
SUCCESS == 0
BUFFER_IS_TOO_SMALL == -3
OTHER_ERROR == -6

Run(b, n) == [b |-> b, n |-> n]
\* The runs of a sequence of bytes.
Str(bytes) == [i \in DOMAIN bytes |-> Run(bytes[i], 1)]

RECURSIVE RLen(_)
RLen(rs) == IF rs = <<>> THEN 0 ELSE Head(rs).n + RLen(Tail(rs))

RECURSIVE RTake(_, _)
\* The first k bytes.
RTake(rs, k) ==
    IF k <= 0 \/ rs = <<>> THEN <<>>
    ELSE IF Head(rs).n = 0 THEN RTake(Tail(rs), k)
    ELSE IF Head(rs).n <= k THEN <<Head(rs)>> \o RTake(Tail(rs), k - Head(rs).n)
    ELSE <<Run(Head(rs).b, k)>>

RECURSIVE RDrop(_, _)
\* All but the first k bytes.
RDrop(rs, k) ==
    IF rs = <<>> THEN <<>>
    ELSE IF k <= 0 THEN rs
    ELSE IF Head(rs).n <= k THEN RDrop(Tail(rs), k - Head(rs).n)
    ELSE <<Run(Head(rs).b, Head(rs).n - k)>> \o Tail(rs)

RECURSIVE Expand(_)
\* The bytes of a (short) sequence of runs.
Expand(rs) ==
    IF rs = <<>> THEN <<>>
    ELSE [i \in 1 .. Head(rs).n |-> Head(rs).b] \o Expand(Tail(rs))

\* u32::to_le_bytes of a length, and of u32::MAX.
ToLeBytes(v) ==
    <<v % 256, (v \div 256) % 256, (v \div 65536) % 256, (v \div 16777216) % 256>>
U32MaxBytes == <<255, 255, 255, 255>>

\* A length too large for any buffer: lengths of 2^30 and more are not told
\* apart.
HugeLen == 1073741824
\* u32::from_le_bytes / u32::from_be_bytes as usize
FromLeBytes(b) ==
    IF b[4] >= 64 THEN HugeLen
    ELSE b[1] + 256 * b[2] + 65536 * b[3] + 16777216 * b[4]
FromBeBytes(b) ==
    IF b[1] >= 64 THEN HugeLen
    ELSE b[4] + 256 * b[3] + 65536 * b[2] + 16777216 * b[1]

\* vec![0; len]
ZeroBuf(len) == <<Run(0, len)>>

\* A host that doubles the buffer instead.
ResizeDoubling(data, len) == data \o <<Run(0, RLen(data))>>

\* result_buf.resize(len, 0)
Resize(data, len) ==
    IF len <= RLen(data) THEN RTake(data, len)
    ELSE data \o <<Run(0, len - RLen(data))>>

\* std::ptr::copy_nonoverlapping(src, result_ptr.add(offset), len)
WriteAt(data, offset, rs) ==
    RTake(data, offset) \o rs \o RDrop(data, offset + RLen(rs))

\* result_buf[offset..][..len]: whether the slice exists, and its bytes.
InRange(data, offset, len) == offset + len <= RLen(data)
Slice(data, offset, len) == RTake(RDrop(data, offset), len)

\* String::from_utf8 on the bytes in play (ASCII, NUL and 0xFF).
IsUtf8(rs) == \A i \in DOMAIN rs : rs[i].n = 0 \/ rs[i].b < 128

\* ImportResult
NoImportResult == [kind |-> "none", sources |-> <<>>, triples |-> <<>>, reason |-> <<>>]
ImportOk == [NoImportResult EXCEPT !.kind = "Ok"]
RequireSources(sources) == [NoImportResult EXCEPT !.kind = "RequireSources", !.sources = sources]
RequireDependencies(triples) ==
    [NoImportResult EXCEPT !.kind = "RequireDependencies", !.triples = triples]
ImportErr(reason) == [NoImportResult EXCEPT !.kind = "Err", !.reason = reason]
\* The host panics while it decodes (an index out of range).
ImportPanics == [NoImportResult EXCEPT !.kind = "panic"]

Triple(s, f, t) == [s |-> s, f |-> f, t |-> t]

\* What the plugin's importer returns: the strings are ASCII.
PluginAnswers ==
    {ImportOk}
    \cup {RequireSources(l) :
            l \in {<<>>, <<Str(<<>>)>>, <<Str(<<120>>)>>, <<Str(<<>>), Str(<<>>)>>,
                   <<Str(<<120>>), Str(<<121, 122>>)>>, <<<<Run(97, 1020)>>>>}}
    \cup {RequireDependencies(l) :
            l \in {<<>>,
                   <<Triple(Str(<<>>), {Str(<<>>)}, Str(<<>>))>>,
                   <<Triple(Str(<<>>), {}, Str(<<>>))>>,
                   <<Triple(Str(<<115>>), {Str(<<102>>)}, Str(<<116>>))>>,
                   <<Triple(Str(<<115>>), {}, Str(<<116>>))>>}}
    \cup {ImportErr(r) :
            r \in {<<>>, Str(<<110, 111>>), <<Run(97, RESULT_BUF_LEN_START)>>,
                   <<Run(97, RESULT_BUF_LEN_START + 1)>>, <<Run(97, ANY_BUF_LEN_LIMIT)>>,
                   <<Run(97, ANY_BUF_LEN_LIMIT + 1)>>}}

RECURSIVE SourcesLen(_)
\* sources.iter().fold(0, |acc, p| acc + p.len() + size_of::<u32>())
SourcesLen(l) == IF l = <<>> THEN 0 ELSE RLen(Head(l)) + 4 + SourcesLen(Tail(l))

OptLen(f) == IF f = {} THEN 0 ELSE RLen(CHOOSE x \in f : TRUE)

RECURSIVE TriplesLen(_)
\* triples.iter().fold(0, |acc, (s, f, t)| acc + s.len() + f.len or 0 + t.len() + 4 * 3)
TriplesLen(l) ==
    IF l = <<>> THEN 0
    ELSE RLen(Head(l).s) + OptLen(Head(l).f) + RLen(Head(l).t) + 12 + TriplesLen(Tail(l))

\* len_required of importer_import_ffi (reason.len() for an error).
LenRequired(answer) ==
    CASE answer.kind = "RequireSources" -> SourcesLen(answer.sources) + 4
      [] answer.kind = "RequireDependencies" -> TriplesLen(answer.triples) + 4
      [] answer.kind = "Err" -> RLen(answer.reason)
      [] OTHER -> 0

\* One length-prefixed string written at the offset (lib.rs 193..207 and
\* 246..263): the buffer and the offset after it.
WriteString(w, str) ==
    [data |-> WriteAt(WriteAt(w.data, w.offset, Str(ToLeBytes(RLen(str)))),
                      w.offset + 4, str),
     offset |-> w.offset + 4 + RLen(str)]

\* format None (lib.rs 238..244): u32::MAX is written at the offset, the
\* offset stays.
WriteNone(w) == [w EXCEPT !.data = WriteAt(w.data, w.offset, Str(U32MaxBytes))]

RECURSIVE WriteSources(_, _)
WriteSources(w, l) ==
    IF l = <<>> THEN w ELSE WriteSources(WriteString(w, Head(l)), Tail(l))

WriteTriple(w, tr) ==
    WriteString(IF tr.f = {} THEN WriteNone(WriteString(w, tr.s))
                ELSE WriteString(WriteString(w, tr.s), CHOOSE x \in tr.f : TRUE),
                tr.t)

RECURSIVE WriteTriples(_, _)
WriteTriples(w, l) ==
    IF l = <<>> THEN w ELSE WriteTriples(WriteTriple(w, Head(l)), Tail(l))

\* importer_import_ffi after importer.import returned answer: the return
\* code, the buffer and *result_len.
ImporterImportFfi(answer, data, result_len) ==
    LET start == [data |-> data, offset |-> 4]
    IN  IF answer.kind = "Ok"
        THEN [rc |-> SUCCESS, data |-> data, result_len |-> result_len]
        ELSE IF result_len < LenRequired(answer)
        THEN [rc |-> BUFFER_IS_TOO_SMALL, data |-> data, result_len |-> LenRequired(answer)]
        ELSE CASE answer.kind = "RequireSources" ->
                    [rc |-> REQUIRE_SOURCES,
                     data |-> WriteSources(
                                [start EXCEPT !.data = WriteAt(data, 0,
                                     Str(ToLeBytes(Len(answer.sources))))],
                                answer.sources).data,
                     result_len |-> LenRequired(answer)]
               [] answer.kind = "RequireDependencies" ->
                    [rc |-> REQUIRE_DEPENDENCIES,
                     data |-> WriteTriples(
                                [start EXCEPT !.data = WriteAt(data, 0,
                                     Str(ToLeBytes(Len(answer.triples))))],
                                answer.triples).data,
                     result_len |-> LenRequired(answer)]
               [] answer.kind = "Err" ->
                    [rc |-> OTHER_ERROR, data |-> WriteAt(data, 0, answer.reason),
                     result_len |-> LenRequired(answer)]

\* The host reads a length at the offset (lib.rs 523..529): the four bytes, or
\* none when the slice is out of range.
ReadU32(data, offset) ==
    IF InRange(data, offset, 4) THEN {Expand(Slice(data, offset, 4))} ELSE {}

\* The host reads the string of a length at the offset (530..535): the offset
\* is not moved past it.
ReadString(data, offset, len) ==
    IF InRange(data, offset, len) THEN {Slice(data, offset, len)} ELSE {}

RECURSIVE DecodeSources(_, _, _, _)
\* lib.rs 521..545: for _ in 0..count
DecodeSources(data, count, offset, acc) ==
    IF count = 0 THEN RequireSources(acc)
    ELSE IF ReadU32(data, offset) = {} THEN ImportPanics
    ELSE LET len == FromBeBytes(CHOOSE b \in ReadU32(data, offset) : TRUE)
             str == ReadString(data, offset + 4, len)
         IN  IF str = {} THEN ImportPanics
             ELSE IF \E x \in str : ~IsUtf8(x)
             THEN ImportErr(Str(<<115>>))
             ELSE DecodeSources(data, count - 1, offset + 4,
                                Append(acc, CHOOSE x \in str : TRUE))

\* One field of a triple (561..631): the string (or None) and the offset after
\* the length; optional is TRUE for the format.
DecodeField(data, offset, optional) ==
    IF ReadU32(data, offset) = {} THEN [kind |-> "panic", value |-> {}]
    ELSE LET b == CHOOSE x \in ReadU32(data, offset) : TRUE
             str == ReadString(data, offset + 4, FromBeBytes(b))
         IN  IF optional /\ b = U32MaxBytes THEN [kind |-> "none", value |-> {}]
             ELSE IF str = {} THEN [kind |-> "panic", value |-> {}]
             ELSE IF \E x \in str : ~IsUtf8(x) THEN [kind |-> "utf8", value |-> {}]
             ELSE [kind |-> "some", value |-> str]

RECURSIVE DecodeTriples(_, _, _, _)
\* lib.rs 558..635: for _ in 0..count
DecodeTriples(data, count, offset, acc) ==
    IF count = 0 THEN RequireDependencies(acc)
    ELSE LET s == DecodeField(data, offset, FALSE)
             f == DecodeField(data, offset + 4, TRUE)
             t == DecodeField(data, offset + 8, FALSE)
         IN  IF s.kind = "panic" THEN ImportPanics
             ELSE IF s.kind = "utf8" THEN ImportErr(Str(<<115>>))
             ELSE IF f.kind = "panic" THEN ImportPanics
             ELSE IF f.kind = "utf8" THEN ImportErr(Str(<<102>>))
             ELSE IF t.kind = "panic" THEN ImportPanics
             ELSE IF t.kind = "utf8" THEN ImportErr(Str(<<116>>))
             ELSE DecodeTriples(data, count - 1, offset + 12,
                    Append(acc, Triple(CHOOSE x \in s.value : TRUE, f.value,
                                       CHOOSE x \in t.value : TRUE)))

\* lib.rs 509..653: what ImporterFFI::import returns for a return code other
\* than BUFFER_IS_TOO_SMALL.
Decode(rc, data, result_len) ==
    CASE rc = SUCCESS -> ImportOk
      [] rc = REQUIRE_SOURCES ->
            DecodeSources(data, FromLeBytes(Expand(Slice(data, 0, 4))), 4, <<>>)
      [] rc = REQUIRE_DEPENDENCIES ->
            DecodeTriples(data, FromLeBytes(Expand(Slice(data, 0, 4))), 4, <<>>)
      [] rc = OTHER_ERROR ->
            IF InRange(data, 0, result_len) THEN ImportErr(Slice(data, 0, result_len))
            ELSE ImportPanics
      [] OTHER -> ImportErr(Str(<<117>>))

FfiIdle ==
    [pc |-> "idle", data |-> <<>>, result_len |-> 0, rc |-> SUCCESS,
     answer |-> NoImportResult, calls |-> 0, changed |-> FALSE, limit |-> FALSE,
     result |-> NoImportResult]

\* ImporterFFI::import up to the loop (lib.rs 472..473).
FfiStart ==
    /\ ffi.pc = "idle"
    /\ ffi' = [FfiIdle EXCEPT !.pc = "call", !.data = ZeroBuf(RESULT_BUF_LEN_START),
                              !.result_len = RESULT_BUF_LEN_START]
    /\ UNCHANGED <<restVars, now, idVars, storeVars, pathVars, impVars, ldVars, srvVars>>

\* (self.import)(..., result_buf.as_mut_ptr(), &mut result_len): the plugin
\* runs its importer and importer_import_ffi encodes the answer.
FfiCall(answer) ==
    /\ ffi.pc = "call"
    /\ ffi.calls < MaxFfiCalls
    /\ \E o \in {ImporterImportFfi(answer, ffi.data, ffi.result_len)} :
          ffi' = [ffi EXCEPT !.pc = "returned", !.rc = o.rc, !.data = o.data,
                             !.result_len = o.result_len, !.answer = answer,
                             !.calls = @ + 1,
                             !.changed = @ \/ (ffi.calls > 0 /\ answer # ffi.answer)]
    /\ UNCHANGED <<restVars, now, idVars, storeVars, pathVars, impVars, ldVars, srvVars>>

\* lib.rs 492..654: the host looks at the return code.
FfiReturn ==
    /\ ffi.pc = "returned"
    /\ ffi' = IF ffi.rc = BUFFER_IS_TOO_SMALL
              THEN IF ffi.result_len > ANY_BUF_LEN_LIMIT
                   THEN [ffi EXCEPT !.pc = "done", !.limit = TRUE,
                                    !.result = ImportErr(Str(<<108>>))]
                   ELSE [ffi EXCEPT !.pc = "call",
                                    !.data = Resize(ffi.data, ffi.result_len)]
              ELSE [ffi EXCEPT !.pc = "done",
                               !.result = Decode(ffi.rc, ffi.data, ffi.result_len)]
    /\ UNCHANGED <<restVars, now, idVars, storeVars, pathVars, impVars, ldVars, srvVars>>

FfiAtRest == ffi = FfiIdle

----------------------------------------------------------------------------
(* Loading importer libraries (store/src/importer/dylib.rs, Treasury::new). *)

\* u32::from_le_bytes(*b"TRES")
MAGIC == 1397051988
\* version(): the major version of the host's treasury-import crate.
HostVersion == 0

\* An importer a library exports; utf8 is whether its format, target and name
\* are UTF-8.
Exported(name, target, format, extensions, utf8) ==
    [imp |-> [name |-> name, target |-> target, formats |-> <<format>>,
              extensions |-> extensions],
     utf8 |-> utf8]

\* A dynamic library: whether it opens, the value of TREASURY_DYLIB_MAGIC, what
\* treasury_importer_ffi_version returns and what treasury_export_importers
\* writes; a missing symbol is the empty set.
Library(id, opens, magic, ffi_version, export) ==
    [id |-> id, opens |-> opens, magic |-> magic, version |-> ffi_version,
     export |-> export]

LibrarySamples ==
    {Library("pair", TRUE, {MAGIC}, {HostVersion},
             {<<Exported("p1", "t", "q", <<"e", "g">>, TRUE),
                Exported("p2", "u", "p", <<>>, TRUE)>>}),
     Library("latin", TRUE, {MAGIC}, {HostVersion},
             {<<Exported("l1", "u", "q", <<"g">>, TRUE),
                Exported("l2", "t", "p", <<>>, FALSE)>>}),
     Library("absent", FALSE, {MAGIC}, {HostVersion},
             {<<Exported("a1", "t", "p", <<>>, TRUE)>>}),
     Library("nomagic", TRUE, {}, {HostVersion},
             {<<Exported("n1", "t", "p", <<>>, TRUE)>>}),
     Library("badmagic", TRUE, {MAGIC + 1}, {HostVersion},
             {<<Exported("b1", "t", "q", <<>>, TRUE)>>}),
     Library("noversion", TRUE, {MAGIC}, {},
             {<<Exported("w1", "u", "p", <<>>, TRUE)>>}),
     Library("badversion", TRUE, {MAGIC}, {HostVersion + 1},
             {<<Exported("v1", "t", "p", <<"e">>, TRUE)>>}),
     Library("noexport", TRUE, {MAGIC}, {HostVersion}, {})}

\* eyre::Result of load_importers, with whether treasury_export_importers was
\* called.
LoadFailed(why) == [ok |-> FALSE, why |-> why, called |-> FALSE, importers |-> <<>>]

RECURSIVE Utf8Importers(_)
\* dylib.rs 122..170: filter_map drops an importer whose format, target or
\* name is not UTF-8.
Utf8Importers(exported) ==
    IF exported = <<>> THEN <<>>
    ELSE (IF Head(exported).utf8 THEN <<Head(exported).imp>> ELSE <<>>)
         \o Utf8Importers(Tail(exported))

\* A loader that does not compare the version.
LoadImportersAnyVersion(lib) ==
    IF ~lib.opens THEN LoadFailed("open")
    ELSE IF lib.magic = {} THEN LoadFailed("magic symbol")
    ELSE IF lib.magic # {MAGIC} THEN LoadFailed("magic mismatch")
    ELSE IF lib.version = {} THEN LoadFailed("version symbol")
    ELSE IF lib.export = {} THEN LoadFailed("export symbol")
    ELSE [ok |-> TRUE, why |-> "", called |-> TRUE,
          importers |-> Utf8Importers(CHOOSE l \in lib.export : TRUE)]

\* load_importers(lib_path)
LoadImporters(lib) ==
    IF ~lib.opens THEN LoadFailed("open")
    ELSE IF lib.magic = {} THEN LoadFailed("magic symbol")
    ELSE IF lib.magic # {MAGIC} THEN LoadFailed("magic mismatch")
    ELSE IF lib.version = {} THEN LoadFailed("version symbol")
    ELSE IF lib.version # {HostVersion} THEN LoadFailed("version mismatch")
    ELSE IF lib.export = {} THEN LoadFailed("export symbol")
    ELSE [ok |-> TRUE, why |-> "", called |-> TRUE,
          importers |-> Utf8Importers(CHOOSE l \in lib.export : TRUE)]

RECURSIVE AddAll(_, _)
\* mod.rs 46..48: for importer in iter { self.add_importer(importer) }
AddAll(r, importers) ==
    IF importers = <<>> THEN r
    ELSE AddAll(AddImporterTo(r, Head(importers)), Tail(importers))

LoaderIdle ==
    [pc |-> "idle", base_ok |-> FALSE, libs |-> <<>>, next |-> 1, called |-> {},
     logged |-> {}, result |-> "none"]

\* Treasury::new up to the loop over meta.importers (lib.rs 134..158); the
\* base path may fail to canonicalize.
TreasuryNew(libs, base_ok) ==
    /\ ld.pc = "idle"
    /\ ld' = IF base_ok
             THEN [ld EXCEPT !.pc = "loading", !.base_ok = TRUE, !.libs = libs]
             ELSE [ld EXCEPT !.pc = "done", !.libs = libs, !.result = "Err"]
    /\ reg' = NoTargets
    /\ added' = <<>>
    /\ UNCHANGED <<restVars, now, idVars, storeVars, pathVars, ffiVars, srvVars>>

\* A loop that gives up at the first library that fails to load.
LoadDylibImportersOrFail ==
    /\ ld.pc = "loading"
    /\ ld.next <= Len(ld.libs)
    /\ \E o \in {LoadImporters(ld.libs[ld.next])} :
          /\ ld' = IF o.ok
                   THEN [ld EXCEPT !.next = @ + 1, !.called = @ \cup {ld.next}]
                   ELSE [ld EXCEPT !.pc = "done", !.result = "Err",
                                   !.logged = @ \cup {ld.next}]
          /\ reg' = AddAll(reg, o.importers)
          /\ added' = added \o o.importers
    /\ UNCHANGED <<restVars, now, idVars, storeVars, pathVars, ffiVars, srvVars>>

\* One round of the loop (lib.rs 159..174): load_dylib_importers of the next
\* library; its error is logged.
LoadDylibImporters ==
    /\ ld.pc = "loading"
    /\ ld.next <= Len(ld.libs)
    /\ \E o \in {LoadImporters(ld.libs[ld.next])} :
          /\ ld' = [ld EXCEPT !.next = @ + 1,
                              !.called = IF o.called THEN @ \cup {ld.next} ELSE @,
                              !.logged = IF o.ok THEN @ ELSE @ \cup {ld.next}]
          /\ reg' = AddAll(reg, o.importers)
          /\ added' = added \o o.importers
    /\ UNCHANGED <<restVars, now, idVars, storeVars, pathVars, ffiVars, srvVars>>

\* lib.rs 176..188: Ok(Treasury { .. })
TreasuryNewReturns ==
    /\ ld.pc = "loading"
    /\ ld.next > Len(ld.libs)
    /\ ld' = [ld EXCEPT !.pc = "done", !.result = "Ok"]
    /\ UNCHANGED <<restVars, now, idVars, storeVars, pathVars, impVars, ffiVars, srvVars>>

LoaderAtRest == ld = LoaderIdle

----------------------------------------------------------------------------
(* The server (server/src/server.rs).                                       *)

Conns == 1 .. MaxConns

\* Directories an Open may name: "p/s" is a subdirectory of "p"; "p", "q" and
\* "m" hold a Treasury.toml, the one of "m" does not parse; "n" has none.
OpenPaths == {"p", "p/s", "q", "m", "n"}
Parent(path) == IF path = "p/s" THEN {"p"} ELSE {}
InitialTomls == {"p", "q", "m"}

RECURSIVE FindTreasuryInfo(_, _)
\* find_treasury_info: the nearest ancestor (the path included) that holds a
\* Treasury.toml.
FindTreasuryInfo(tomls, path) ==
    IF path \in tomls THEN {path}
    ELSE IF Parent(path) = {} THEN {}
    ELSE FindTreasuryInfo(tomls, CHOOSE q \in Parent(path) : TRUE)

\* Treasury::find_from: the directory of the treasury it opened, or none when
\* no Treasury.toml is found or Treasury::open fails on it.
FindFrom(tomls, path) ==
    {root \in FindTreasuryInfo(tomls, path) : root # "m"}

\* The Open message as recv_message returns it: Err, Ok(None), Ok(Some(open)).
BadOpen == [kind |-> "bad", path |-> "", init |-> FALSE]
NoOpen == [kind |-> "eof", path |-> "", init |-> FALSE]
OpenRequest(path, init) == [kind |-> "open", path |-> path, init |-> init]

\* What a request comes to: Request::Store with what treasury.store does
\* (Ok, Err or a panic), FetchUrl and FindAsset with what the treasury finds.
RequestKinds == {"Store", "FetchUrl", "FindAsset"}
Outcomes(kind) ==
    IF kind = "Store" THEN {"Success", "Failure", "panic"}
    ELSE {"Success", "Failure", "NotFound"}

Response(kind, outcome) == [to |-> kind, kind |-> outcome]

FreeConn ==
    [pc |-> "free", path |-> "", pending |-> "none", inst |-> 0, treasury |-> 0,
     reqs |-> <<>>, resps |-> <<>>, broken |-> FALSE]

\* run() after the listener is bound (server.rs 27..50), with the configured
\* pending_timeout.
ServerStarted(pending_timeout) ==
    [pc |-> "select", pending_timeout |-> pending_timeout, clock |-> 0,
     deadline |-> -1, timer_start |-> 0, idle_since |-> 0, last_accept |-> 0,
     rebinds |-> 0, cancelled |-> FALSE, lock |-> 0, treasuries |-> <<>>, instances |-> <<>>,
     tomls |-> InitialTomls]

\* The connection futures in `tasks`.
Tasks == {c \in Conns : conn[c].pc \notin {"free", "closed"}}

\* Whether the futures in `tasks` are polled: in the select of the outer loop,
\* and in tasks.collect() after the loop was left.
Serving == srv.pc \in {"select", "idle_exit", "bind_exit"}

\* The task of a connection ends (try_serve returned); the server notes when
\* its last task ended.
Closed(cn, broken) == [cn EXCEPT !.pc = "closed", !.broken = @ \/ broken]
AfterCloseOf(s, c) ==
    IF Tasks \ {c} = {} THEN [s EXCEPT !.idle_since = s.clock] ELSE s

\* A timer that keeps the deadline of the timer before it.
NewDeadlineStale(s) ==
    IF s.deadline >= 0 THEN s.deadline ELSE s.clock + s.pending_timeout
\* sleep(Duration::from_secs(cfg.pending_timeout as u64))
NewDeadline(s) == s.clock + s.pending_timeout

\* server.rs 54 and 73..75: tasks.next() returns, no task is left and
\* pending_timeout is not negative: the timer starts.
StartTimer ==
    /\ srv.pc = "select"
    /\ srv.pending_timeout >= 0
    /\ Tasks = {}
    /\ srv' = [srv EXCEPT !.pc = "timer", !.deadline = NewDeadline(srv),
                          !.timer_start = srv.clock]
    /\ UNCHANGED <<restVars, now, idVars, storeVars, pathVars, impVars, ffiVars, ldVars, conn>>

\* server.rs 79..81: the timer fires; break 'outer.
TimerFires ==
    /\ srv.pc = "timer"
    /\ srv.clock >= srv.deadline
    /\ srv' = [srv EXCEPT !.pc = "idle_exit"]
    /\ UNCHANGED <<restVars, now, idVars, storeVars, pathVars, impVars, ffiVars, ldVars, conn>>

\* server.rs 55..58 and 82..86: a connection is accepted, in either loop; its
\* future is pushed and the outer loop goes on.
Accept(c) ==
    /\ srv.pc \in {"select", "timer"}
    /\ conn[c].pc = "free"
    /\ \A d \in Conns : d < c => conn[d].pc # "free"
    /\ srv' = [srv EXCEPT !.pc = "select", !.last_accept = srv.clock,
                          !.cancelled = @ \/ srv.pc = "timer"]
    /\ conn' = [conn EXCEPT ![c] = [FreeConn EXCEPT !.pc = "handshake"]]
    /\ UNCHANGED <<restVars, now, idVars, storeVars, pathVars, impVars, ffiVars, ldVars>>

\* server.rs 59..69 and 87..97: accept fails; the listener is bound again, or
\* the loop is left when that fails too.
AcceptFails(rebound) ==
    /\ srv.pc \in {"select", "timer"}
    /\ srv.rebinds < MaxRebinds
    /\ srv' = IF rebound THEN [srv EXCEPT !.rebinds = @ + 1]
              ELSE [srv EXCEPT !.pc = "bind_exit"]
    /\ UNCHANGED <<restVars, now, idVars, storeVars, pathVars, impVars, ffiVars, ldVars, conn>>

\* A second passes.
SecondPasses ==
    /\ srv.pc \in {"select", "timer"}
    /\ srv.clock < MaxClock
    /\ srv' = [srv EXCEPT !.clock = @ + 1]
    /\ UNCHANGED <<restVars, now, idVars, storeVars, pathVars, impVars, ffiVars, ldVars, conn>>

\* server.rs 127: recv_handshake(&mut stream).await?
Handshake(c, ok) ==
    /\ Serving
    /\ conn[c].pc = "handshake"
    /\ conn' = [conn EXCEPT ![c] = IF ok THEN [@ EXCEPT !.pc = "open"]
                                   ELSE Closed(@, TRUE)]
    /\ srv' = IF ok THEN srv ELSE AfterCloseOf(srv, c)
    /\ UNCHANGED <<restVars, now, idVars, storeVars, pathVars, impVars, ffiVars, ldVars>>

\* server.rs 150..192 after send_message(..).await: what the connection and
\* the registry become once the OpenResponse is sent (or the send failed); the
\* guard of treasuries.lock() is dropped at the end of the match.
AfterOpenSend(s, cn, c, sent) ==
    LET unlocked == [s EXCEPT !.lock = 0]
    IN  IF ~sent \/ cn.pending = "fail"
        THEN [srv |-> AfterCloseOf(unlocked, c), conn |-> Closed(cn, ~sent)]
        ELSE IF cn.pending = "share"
        THEN [srv |-> unlocked, conn |-> [cn EXCEPT !.pc = "loop", !.treasury = cn.inst]]
        ELSE [srv |-> [unlocked EXCEPT !.treasuries =
                          [k \in DOMAIN @ \cup {cn.path} |->
                              IF k = cn.path THEN cn.inst ELSE @[k]]],
              conn |-> [cn EXCEPT !.pc = "loop", !.treasury = cn.inst]]

\* treasuries.lock().entry(open.path.clone())
EntryKey(s, path) == path

\* server.rs 129..195 up to the send of the OpenResponse: the Open message is
\* read, the registry is locked and looked up under the path of the message,
\* a vacant entry opens the treasury (initialized: Treasury::init_in succeeds
\* or fails); sync is whether send_message completes without suspending.
RecvOpen(c, open, initialized, sync) ==
    /\ Serving
    /\ conn[c].pc = "open"
    /\ IF open.kind # "open"
       THEN /\ conn' = [conn EXCEPT ![c] = Closed(@, open.kind = "eof")]
            /\ srv' = AfterCloseOf(srv, c)
       ELSE IF srv.lock # 0
       THEN /\ srv' = [srv EXCEPT !.pc = "blocked"]
            /\ UNCHANGED conn
       ELSE LET key == EntryKey(srv, open.path)
                occupied == key \in DOMAIN srv.treasuries
                found == IF open.init
                         THEN (IF initialized THEN {open.path} ELSE {})
                         ELSE FindFrom(srv.tomls, open.path)
                fresh == ~occupied /\ found # {}
                s == IF fresh
                     THEN [srv EXCEPT !.lock = c,
                                      !.instances = Append(@, CHOOSE r \in found : TRUE),
                                      !.tomls = @ \cup found]
                     ELSE [srv EXCEPT !.lock = c]
                cn == [conn[c] EXCEPT
                          !.pc = "sending", !.path = key,
                          !.pending = IF occupied
                                      THEN (IF open.init THEN "fail" ELSE "share")
                                      ELSE (IF fresh THEN "insert" ELSE "fail"),
                          !.inst = IF occupied THEN srv.treasuries[key]
                                   ELSE IF fresh THEN Len(s.instances) ELSE 0]
                o == IF sync THEN AfterOpenSend(s, cn, c, TRUE)
                     ELSE [srv |-> s, conn |-> cn]
            IN  /\ srv' = o.srv
                /\ conn' = [conn EXCEPT ![c] = o.conn]
    /\ UNCHANGED <<restVars, now, idVars, storeVars, pathVars, impVars, ffiVars, ldVars>>

\* The send of the OpenResponse completes after it had suspended.
OpenSent(c, sent) ==
    /\ Serving
    /\ conn[c].pc = "sending"
    /\ \E o \in {AfterOpenSend(srv, conn[c], c, sent)} :
          /\ srv' = o.srv
          /\ conn' = [conn EXCEPT ![c] = o.conn]
    /\ UNCHANGED <<restVars, now, idVars, storeVars, pathVars, impVars, ffiVars, ldVars>>

\* server.rs 200..204: recv_message returns Ok(None) (the client has
\* disconnected) or an error: try_serve returns.
Disconnect(c) ==
    /\ Serving
    /\ conn[c].pc = "loop"
    /\ conn' = [conn EXCEPT ![c] = Closed(@, TRUE)]
    /\ srv' = AfterCloseOf(srv, c)
    /\ UNCHANGED <<restVars, now, idVars, storeVars, pathVars, impVars, ffiVars, ldVars>>

\* server.rs 205..264: one request is read and handled and its response is
\* sent (sent: send_message succeeds). A panic in treasury.store unwinds
\* through try_serve and run: nothing catches it.
HandleRequest(c, kind, outcome, sent) ==
    /\ Serving
    /\ conn[c].pc = "loop"
    /\ Len(conn[c].reqs) < MaxRequests
    /\ IF outcome = "panic"
       THEN /\ conn' = [conn EXCEPT ![c] = [@ EXCEPT !.reqs = Append(@, kind),
                                                    !.pc = "closed"]]
            /\ srv' = [srv EXCEPT !.pc = "panicked"]
       ELSE IF sent
       THEN /\ conn' = [conn EXCEPT ![c] =
                          [@ EXCEPT !.reqs = Append(@, kind),
                                    !.resps = Append(@, Response(kind, outcome))]]
            /\ UNCHANGED srv
       ELSE /\ conn' = [conn EXCEPT ![c] =
                          Closed([@ EXCEPT !.reqs = Append(@, kind)], TRUE)]
            /\ srv' = AfterCloseOf(srv, c)
    /\ UNCHANGED <<restVars, now, idVars, storeVars, pathVars, impVars, ffiVars, ldVars>>

ServerAtRest ==
    /\ srv = ServerStarted(-1)
    /\ conn = [c \in Conns |-> FreeConn]

\* Treasury::new: nothing is scanned, the artifacts map is empty, no lock is
\* held. `found` and `scans` remember what the scans collected and how many
\* there were.
FetchThreads == {1, 2}
NoLock == 0
NewCache ==
    [scanned |-> FALSE, artifacts |-> <<>>, scanned_lock |-> NoLock,
     artifacts_lock |-> NoLock, scans |-> 0, found |-> {}, fetches |-> 0]
\* A thread that runs no fetch.
NoFetch ==
    [pc |-> "idle", id |-> <<>>, want |-> {}, saw_scanned |-> FALSE,
     existing |-> {}, fresh |-> {}, out |-> {}]
FetchAtRest ==
    /\ arts = NewCache
    /\ fth = [t \in FetchThreads |-> NoFetch]

\* Sources::new with Temporaries::new: nothing fetched, no temporary made.
\* `first` remembers the path of the first successful fetch of a URL.
NoSourcesCall ==
    [op |-> "none", url |-> <<>>, out |-> {}, ok |-> TRUE, known |-> FALSE,
     feched |-> <<>>, made |-> {}]
NewSources ==
    [feched |-> <<>>, made |-> {}, created |-> {}, first |-> <<>>, calls |-> 0,
     last |-> NoSourcesCall]
SourcesAtRest == fch = NewSources

\* No id is being made.
NoFields == [timestamp |-> 0, node |-> 0, counter |-> 0]
NoScramble ==
    [pc |-> "idle", a |-> NoFields, b |-> NoFields, pre |-> <<0, 0>>,
     id |-> <<<<>>, <<>>>>]
ScrambleAtRest == scr = NoScramble

\* No library is loaded.
NoExport == [count |-> <<0, 0>>, ret |-> 0, writes |-> {}, panicked |-> FALSE]
NoLibrary ==
    [pc |-> "idle", build |-> "release", n |-> 0, buf |-> <<>>, oob |-> {},
     calls |-> 0, last |-> NoExport]
ExportAtRest == ex = NoLibrary

\* The parts of the system a specification does not run.
LaterAtRest ==
    /\ ImportersAtRest /\ FfiAtRest /\ LoaderAtRest /\ ServerAtRest /\ FetchAtRest
    /\ SourcesAtRest /\ ExportAtRest /\ ScrambleAtRest

----------------------------------------------------------------------------
(* The file system and the importer plugins.                               *)

\* file: URLs of source files under the treasury base.
Files == {"a", "b", "x"}
\* data: URLs; Sources::fetch writes their content to a temporary file.
DataUrls == {"d"}
\* "h" is a URL whose scheme Sources::fetch does not support.
Urls == Files \cup {"h"} \cup DataUrls
\* The sources store() is called with.
Callable == {"a", "b", "h"}
Targets == {"t"}
NoFormat == "none"
Hints == {NoFormat, "f"}
\* What an importer names in a request: a URL, or "bad", which Url::join rejects.
Refs == {"a", "b", "bad"}

\* const MAX_ITEM_ATTEMPTS: u32 = 1024
MAX_ITEM_ATTEMPTS == 1024

\* How the importer of a source answers (the plugin is an input of the engine):
\*   none     no importer is registered for the source's extension and target
\*   ok, err  Ok(()) / ImportError::Other
\*   needsrc  reads source "x" through the sources callback; RequireSources
\*            ["x"] while the callback does not find it
\*   srcbad   RequireSources ["bad"]      srch   RequireSources ["h"]
\*   needdep  looks every dependency up through the dependencies callback and
\*            requires the missing ones (Dependencies::get_or_append)
\*   depblind requires its dependencies on its first invocation, succeeds
\*            afterwards, and never calls the dependencies callback
\*   reqsrc   RequireSources ["x"] on every attempt
\*   reqdep   RequireDependencies of its dependencies on every attempt
\*   errout, needsrcout   as err and needsrc, and the importer has created
\*            the output file before it returns
\*   needboth reads source "x" and then source "b" through the sources
\*            callback; RequireSources of the first one the callback misses
DepLists == {<<"a">>, <<"b">>, <<"bad">>, <<"a", "b">>}
SimplePolicies ==
    [kind : {"none", "ok", "err", "needsrc", "srcbad", "srch"}, deps : {<<>>}]
        \cup [kind : {"needdep", "depblind"}, deps : DepLists]
PersistentPolicies ==
    [kind : {"reqsrc"}, deps : {<<>>}] \cup [kind : {"reqdep"}, deps : DepLists]
OutputPolicies == [kind : {"errout", "needsrcout"}, deps : {<<>>}]
OkPolicy == [kind |-> "ok", deps |-> <<>>]

Persistent(p) == p.kind \in {"reqsrc", "reqdep"}

----------------------------------------------------------------------------
(* Source metas (store/src/meta.rs, as store/src/lib.rs uses them).         *)

EmptyMeta == <<>>

\* SourceMeta::get_asset
HasAsset(m, u, t) == t \in DOMAIN m[u]

\* AssetMeta::needs_reimport: a recorded source whose modification time is no
\* longer the recorded one.
NeedsReimport(asset) == \E p \in asset.sources : mtime[p[1]] # p[2]

\* lib.rs 263..285: the asset exists and needs no reimport.
AlreadyImportedNever(m, item) == FALSE
AlreadyImported(m, item) ==
    /\ HasAsset(m, item.source, item.target)
    /\ ~NeedsReimport(m[item.source][item.target])

\* AssetMeta::artifact_path
ArtifactPath(asset) == <<"artifacts", asset.sha>>

\* SourceMeta::add_asset panics when the key holds an asset already.
AddAssetPanics(m, u, t) == HasAsset(m, u, t)

\* SourceMeta::add_asset: the entry is inserted only under a vacant key; an
\* occupied key panics with the map untouched.
AddAssetThenPanic(m, u, t, asset) ==
    [m EXCEPT ![u] = [k \in DOMAIN @ \cup {t} |-> IF k = t THEN asset ELSE @[k]]]
AddAsset(m, u, t, asset) ==
    IF AddAssetPanics(m, u, t) THEN m
    ELSE [m EXCEPT ![u] = [k \in DOMAIN @ \cup {t} |-> IF k = t THEN asset ELSE @[k]]]

----------------------------------------------------------------------------
(* Treasury::store                                                          *)

\* Url::join of a reference against the item's source.
JoinFails(ref) == ref = "bad"
Join(base, ref) == ref

\* Sources::fetch: only file: and data: URLs can be fetched.
FetchFails(u) == u \notin Files \cup DataUrls

\* sources.rs 54..55: fetching a data: URL that is not in the cache makes a
\* temporary and creates the file.
FetchTemps(cache, urls) == {<<"data", u>> : u \in (urls \cap DataUrls) \ cache}

\* The URLs of a list fetched before the first one that fails (lib.rs 357..369).
FetchedBefore(srcs) ==
    {Join("", srcs[i]) : i \in {k \in DOMAIN srcs :
                                  \A j \in 1 .. k : ~FetchFails(Join("", srcs[j]))}}

\* lib.rs 357..369: every requested URL is fetched into the cache.
FetchNone(cache, srcs) == cache
FetchAll(cache, srcs) == cache \cup {Join("", srcs[i]) : i \in DOMAIN srcs}

\* lib.rs 305: the output path of the n-th importer invocation of the call.
OutputTemp(n) == <<"out", n>>

\* importers.guess(url_ext(source), target) / importers.get(format, target)
ImporterFound(item) == policy[item.source].kind # "none"

\* StackItem, with history fields: imports (importer invocations of this item),
\* required (the dependencies pushed for it), looked (the dependencies its
\* importer found through the callback), parent (the position that pushed it).
NewItem(u, f, t, parent) ==
    [source |-> u, format |-> f, target |-> t, attempt |-> 0,
     sources |-> {}, dependencies |-> {},
     imports |-> 0, required |-> {}, looked |-> {}, parent |-> parent]

\* if item.attempt >= MAX_ITEM_ATTEMPTS
TooManyAttemptsStrict(item) == item.attempt > MAX_ITEM_ATTEMPTS
TooManyAttempts(item) == item.attempt >= MAX_ITEM_ATTEMPTS

\* `if stack.is_empty() { return Ok(..) }` after the pop (lib.rs 279, 458).
IsEmptyOrNot(rest) == TRUE
IsEmpty(rest) == rest = <<>>

\* let item = stack.last_mut().unwrap()
CurrentBottom(s) == 1
Current(s) == Len(s)

\* The sources callback (lib.rs 310..317): the cached path, and the source
\* recorded with its modification time.
SourceLookup(cache, ref) ==
    IF JoinFails(ref) \/ Join("", ref) \notin cache THEN {}
    ELSE {<<Join("", ref), mtime[Join("", ref)]>>}

\* The dependencies callback (lib.rs 318..332): the id of the asset the source
\* meta of the joined URL holds for the target.
DependencyLookup(m, ref, t) ==
    IF JoinFails(ref) \/ ~HasAsset(m, Join("", ref), t) THEN {}
    ELSE {m[Join("", ref)][t].id}

RECURSIVE Missing(_, _, _)
\* Dependencies::get_or_append over a list: the references the callback misses.
Missing(m, deps, t) ==
    IF deps = <<>> THEN <<>>
    ELSE (IF DependencyLookup(m, Head(deps), t) = {} THEN <<Head(deps)>> ELSE <<>>)
             \o Missing(m, Tail(deps), t)

Range(s) == {s[i] : i \in DOMAIN s}

Answer(kind, srcs, deps, usedSrc, found) ==
    [kind |-> kind, sources |-> srcs, dependencies |-> deps,
     usedSrc |-> usedSrc, found |-> found]

\* importer.import(source, output, sources callback, dependencies callback):
\* the plugin's answer and what it took from the callbacks.
Import(item, m, cache, hasAsked) ==
    LET p == policy[item.source]
        t == item.target
        found == {d \in Range(p.deps) : DependencyLookup(m, d, t) # {}}
    IN  CASE p.kind = "ok" -> Answer("Ok", <<>>, <<>>, {}, {})
          [] p.kind \in {"err", "errout"} -> Answer("Other", <<>>, <<>>, {}, {})
          [] p.kind \in {"needsrc", "needsrcout"} ->
                IF SourceLookup(cache, "x") = {}
                THEN Answer("RequireSources", <<"x">>, <<>>, {}, {})
                ELSE Answer("Ok", <<>>, <<>>, SourceLookup(cache, "x"), {})
          [] p.kind = "needboth" ->
                IF SourceLookup(cache, "x") = {}
                THEN Answer("RequireSources", <<"x">>, <<>>, {}, {})
                ELSE IF SourceLookup(cache, "b") = {}
                THEN Answer("RequireSources", <<"b">>, <<>>, SourceLookup(cache, "x"), {})
                ELSE Answer("Ok", <<>>, <<>>,
                            SourceLookup(cache, "x") \cup SourceLookup(cache, "b"), {})
          [] p.kind = "srcbad" -> Answer("RequireSources", <<"bad">>, <<>>, {}, {})
          [] p.kind = "srch" -> Answer("RequireSources", <<"h">>, <<>>, {}, {})
          [] p.kind = "reqsrc" -> Answer("RequireSources", <<"x">>, <<>>, {}, {})
          [] p.kind = "needdep" ->
                IF Missing(m, p.deps, t) = <<>>
                THEN Answer("Ok", <<>>, <<>>, {}, found)
                ELSE Answer("RequireDependencies", <<>>, Missing(m, p.deps, t), {}, found)
          [] p.kind = "depblind" ->
                IF hasAsked THEN Answer("Ok", <<>>, <<>>, {}, {})
                ELSE Answer("RequireDependencies", <<>>, p.deps, {}, {})
          [] p.kind = "reqdep" -> Answer("RequireDependencies", <<>>, p.deps, {}, {})

\* Whether the importer has created the file at the output path when it
\* returns: it has when it succeeds.
WritesOutput(p, ans) == ans.kind = "Ok" \/ p.kind \in {"errout", "needsrcout"}

\* The item after the importer ran: the callbacks have recorded the sources
\* and the dependencies the importer used.
AfterImport(item, m, ans) ==
    [item EXCEPT
        !.sources = @ \cup ans.usedSrc,
        !.dependencies = @ \cup UNION {DependencyLookup(m, d, item.target) : d \in ans.found},
        !.looked = @ \cup {<<Join("", d), item.target>> : d \in ans.found},
        !.imports = @ + 1]

\* lib.rs 382..404: one StackItem per dependency, in the order of the list.
PushedItems(deps, t, parent) ==
    [i \in DOMAIN deps |-> NewItem(Join("", deps[i]), NoFormat, t, parent)]

\* lib.rs 433..436: the source is recorded when it has a modification time;
\* the temporary file of a data: URL has none.
Modified(u) == IF u \in Files THEN {<<u, mtime[u]>>} ELSE {}

\* lib.rs 434..452: the asset meta of a finished item.
NewAssetNoDependencies(id, item) ==
    [id |-> id, format |-> item.format,
     sources |-> Modified(item.source) \cup item.sources,
     dependencies |-> {},
     sha |-> item.source]
NewAsset(id, item) ==
    [id |-> id, format |-> item.format,
     sources |-> Modified(item.source) \cup item.sources,
     dependencies |-> item.dependencies,
     sha |-> item.source]

NoReturn == <<>>
\* What the last iteration did: the position whose importer it invoked, the
\* depth of the stack and the number of items pushed for that position then,
\* the number of items it pushed, the item it imported.
NoHist == [pos |-> 0, depth |-> 0, kids |-> 0, pushed |-> 0, imported |-> {}]

Failures ==
    {"no_importer", "fetch_error", "join_error", "importer_error", "too_many",
     "panic_epoch", "panic_backwards", "panic_zero", "panic_exists", "exhausted"}

\* One iteration of the loop of lib.rs 254..461 on a clock reading r (read by
\* id_ctx.generate() when the import succeeds): the values of the variables
\* after it. A failing iteration leaves the stack as the iteration found it,
\* with the failing item on top.
Iteration(r) ==
    LET n == Current(stack)
        item == [stack[n] EXCEPT !.attempt = @ + 1]
        kids == Cardinality({k \in DOMAIN stack : stack[k].parent = n})
        same == [stack |-> [stack EXCEPT ![n] = item], meta |-> meta,
                 fetched |-> fetched, result |-> "running", ret |-> ret,
                 ctx |-> ctx, now |-> now, asked |-> asked,
                 hist |-> [hist EXCEPT !.pushed = 0],
                 temps |-> temps, imports |-> 0, enabled |-> TRUE]
    IN  IF AlreadyImported(meta, item)
        THEN LET asset == meta[item.source][item.target]
                 rest == SubSeq(stack, 1, Len(stack) - 1)
             IN  IF IsEmpty(rest)
                 THEN [same EXCEPT !.stack = rest, !.result = "ok",
                                   !.ret = <<asset.id, ArtifactPath(asset)>>]
                 ELSE [same EXCEPT !.stack = rest]
        ELSE IF ~ImporterFound(item) THEN [same EXCEPT !.result = "no_importer"]
        ELSE IF FetchFails(item.source) THEN [same EXCEPT !.result = "fetch_error"]
        ELSE
        LET ans == Import(item, meta, fetched \cup {item.source}, asked[item.source])
            done == AfterImport(item, meta, ans)
            ran == [same EXCEPT !.stack = [stack EXCEPT ![n] = done],
                                !.fetched = fetched \cup {item.source},
                                !.asked = [asked EXCEPT ![item.source] =
                                              @ \/ ans.kind = "RequireDependencies"],
                                !.hist = [hist EXCEPT !.pos = n, !.depth = Len(stack),
                                                      !.kids = kids, !.pushed = 0],
                                !.temps = temps \cup FetchTemps(fetched, {item.source})
                                            \cup (IF WritesOutput(policy[item.source], ans)
                                                  THEN {OutputTemp(call.imports + 1)}
                                                  ELSE {}),
                                !.imports = 1]
        IN  CASE ans.kind = "Other" -> [ran EXCEPT !.result = "importer_error"]
              [] ans.kind = "RequireSources" ->
                    IF TooManyAttempts(done)
                    THEN [ran EXCEPT !.result = "too_many"]
                    ELSE IF \E i \in DOMAIN ans.sources : JoinFails(ans.sources[i])
                    THEN [ran EXCEPT !.result = "join_error"]
                    ELSE IF \E i \in DOMAIN ans.sources : FetchFails(Join("", ans.sources[i]))
                    THEN [ran EXCEPT !.result = "fetch_error",
                                     !.temps = @ \cup FetchTemps(ran.fetched,
                                                                 FetchedBefore(ans.sources))]
                    ELSE [ran EXCEPT !.fetched = FetchAll(@, ans.sources),
                                     !.temps = @ \cup FetchTemps(ran.fetched,
                                                                 Range(ans.sources))]
              [] ans.kind = "RequireDependencies" ->
                    IF TooManyAttempts(done)
                    THEN [ran EXCEPT !.result = "too_many"]
                    ELSE IF \E i \in DOMAIN ans.dependencies : JoinFails(ans.dependencies[i])
                    THEN [ran EXCEPT !.result = "join_error"]
                    ELSE IF Len(stack) + Len(ans.dependencies) > MaxStack
                    THEN [ran EXCEPT !.result = "exhausted"]
                    ELSE [ran EXCEPT !.stack =
                            [stack EXCEPT ![n] =
                                [done EXCEPT !.required = @ \cup
                                    {<<Join("", d), item.target>> : d \in Range(ans.dependencies)}]]
                            \o PushedItems(ans.dependencies, item.target, n),
                          !.hist = [@ EXCEPT !.pushed = Len(ans.dependencies)]]
              [] ans.kind = "Ok" ->
                    LET d == ctx[1]
                        rest == SubSeq(stack, 1, Len(stack) - 1)
                        asset == NewAsset(MakeId(d, r), done)
                        read == [ran EXCEPT !.now = r]
                    IN  IF BeforeEpoch(r) THEN [read EXCEPT !.result = "panic_epoch"]
                        ELSE IF TimeWentBackwards(d.last_timestamp, r)
                        THEN [read EXCEPT !.result = "panic_backwards"]
                        ELSE IF Throttled(d, r) THEN [same EXCEPT !.enabled = FALSE]
                        ELSE IF MakeId(d, r) = Zero64
                        THEN [read EXCEPT !.result = "panic_zero"]
                        ELSE IF AddAssetPanics(meta, done.source, done.target)
                        THEN [read EXCEPT
                                !.ctx = [ctx EXCEPT ![1] = AfterGenerate(d, r)],
                                !.temps = @ \ {OutputTemp(call.imports + 1)},
                                !.meta = AddAsset(meta, done.source, done.target, asset),
                                !.result = "panic_exists"]
                        ELSE [read EXCEPT
                                !.ctx = [ctx EXCEPT ![1] = AfterGenerate(d, r)],
                                !.temps = @ \ {OutputTemp(call.imports + 1)},
                                !.stack = rest,
                                !.meta = AddAsset(meta, done.source, done.target, asset),
                                !.hist = [@ EXCEPT !.imported = {done}],
                                !.result = IF IsEmpty(rest) THEN "ok" ELSE "running",
                                !.ret = IF IsEmpty(rest)
                                        THEN <<asset.id, ArtifactPath(asset)>>
                                        ELSE ret]

\* Treasury::store(source, format, target): lib.rs 208..252.
BeginStore(u, f, t) ==
    /\ result # "running"
    /\ budget > 0
    /\ budget' = budget - 1
    /\ stack' = <<NewItem(u, f, t, 0)>>
    /\ fetched' = {}
    /\ result' = "running"
    /\ call' = [source |-> u, format |-> f, target |-> t, imports |-> 0]
    /\ ret' = NoReturn
    /\ meta0' = meta
    /\ hist' = NoHist
    /\ temps' = {}
    /\ UNCHANGED <<now, idVars, pathVars, mtime, meta, policy, asked>>

\* A client calls store.
StoreCall(u, f, t) ==
    /\ BeginStore(u, f, t)
    /\ UNCHANGED laterVars

\* One iteration of the loop of store.
StoreStep ==
    /\ result = "running"
    /\ \E o \in {Iteration(r) : r \in Times} :
         /\ o.enabled
         /\ stack' = o.stack
         /\ meta' = o.meta
         /\ fetched' = o.fetched
         /\ result' = o.result
         /\ ret' = o.ret
         /\ ctx' = o.ctx
         /\ now' = o.now
         /\ asked' = o.asked
         /\ hist' = o.hist
         /\ temps' = o.temps
         /\ call' = [call EXCEPT !.imports = @ + o.imports]
    /\ UNCHANGED <<laterVars, thr, issued, ncalls, track, pathVars, mtime, policy, meta0,
                   budget>>

\* A source file is modified between two store calls (MaxMtime modifications
\* in a behaviour).
Touch(u) ==
    /\ result \notin {"idle", "running"}
    /\ budget > 0
    /\ mtime["a"] + mtime["b"] + mtime["x"] < MaxMtime
    /\ mtime' = [mtime EXCEPT ![u] = @ + 1]
    /\ UNCHANGED <<laterVars, now, idVars, pathVars, meta, policy, asked, stack, fetched,
                   result, call, ret, meta0, hist, temps, budget>>

\* The engine before the first call, with the importers given.
StoreAtRest(pol) ==
    /\ mtime = [u \in Files |-> 0]
    /\ meta = [u \in Urls |-> EmptyMeta]
    /\ policy = pol
    /\ asked = [u \in Urls |-> FALSE]
    /\ stack = <<>>
    /\ fetched = {}
    /\ result = "idle"
    /\ call = [source |-> "a", format |-> NoFormat, target |-> "t", imports |-> 0]
    /\ ret = NoReturn
    /\ meta0 = [u \in Urls |-> EmptyMeta]
    /\ hist = NoHist
    /\ temps = {}
    /\ budget = IF \E u \in Urls : Persistent(pol[u]) THEN 1 ELSE MaxStoreCalls

NoImporters == [u \in Urls |-> OkPolicy]

\* Treasury::new: a fresh treasury; the importers of "a" and "b" are inputs.
InitStore ==
    /\ PathsAtRest
    /\ now = 0
    /\ ctx = [c \in Ctxs |-> NewContext(0)]
    /\ thr = [t \in Threads |-> IdleThread]
    /\ issued = [c \in Ctxs |-> {}]
    /\ ncalls = [c \in Ctxs |-> 0]
    /\ track = FALSE
    /\ LaterAtRest
    /\ \E pa \in SimplePolicies \cup PersistentPolicies,
          pb \in SimplePolicies \cup PersistentPolicies :
          StoreAtRest([u \in Urls |-> IF u = "a" THEN pa ELSE IF u = "b" THEN pb
                                      ELSE OkPolicy])

\* The importers of "a" and "b" range over the same answers, so the first call
\* is taken to be for "a" (or "h"); later calls are for any source.
NextStore ==
    \/ \E u \in IF result = "idle" THEN Callable \ {"b"} ELSE Callable,
          f \in Hints, t \in Targets : StoreCall(u, f, t)
    \/ StoreStep
    \/ \E u \in Files : Touch(u)

SpecStore == InitStore /\ [][NextStore]_vars

----------------------------------------------------------------------------
(* Claims about the import engine.                                         *)

\* The asset the source meta held for the call's source and target when the
\* call started was there and needed no reimport.
C1_StoredBefore ==
    /\ result # "idle"
    /\ HasAsset(meta0, call.source, call.target)
    /\ ~NeedsReimport(meta0[call.source][call.target])

C3_AttemptBound ==
    /\ \A k \in DOMAIN stack :
          /\ stack[k].imports <= MAX_ITEM_ATTEMPTS
          /\ stack[k].imports <= stack[k].attempt
    /\ result = "too_many" =>
          /\ stack[Len(stack)].imports = MAX_ITEM_ATTEMPTS
          /\ stack[Len(stack)].attempt = MAX_ITEM_ATTEMPTS
    /\ \A k \in DOMAIN stack :
          (Persistent(policy[stack[k].source])
              /\ stack[k].imports >= MAX_ITEM_ATTEMPTS) =>
                  result = "too_many" /\ k = Len(stack)

\* C3 witness: the call has failed with "Too many attempts" on an item that
\* sits above another one, after more importer invocations in the call than
\* MAX_ITEM_ATTEMPTS.
C3_Witness ==
    /\ result = "too_many"
    /\ call.imports > MAX_ITEM_ATTEMPTS
    /\ Len(stack) > 1

\* C4 (as claimed): the item stack of a store call does not grow without
\* bound: no call outgrows the capacity of the stack.
C4_StackStaysBounded == result # "exhausted"

\* C5: the importer the engine invokes is that of the top item, and none of the
\* items pushed for that item is on the stack then; the items a step pushes
\* start with attempt 0, no format hint, nothing recorded, and lie above the
\* item they were pushed for.
C5_DepthFirst ==
    /\ hist.pos = hist.depth
    /\ hist.kids = 0
    /\ \A k \in DOMAIN stack :
          /\ stack[k].parent < k
          /\ k > 1 => stack[k].format = NoFormat
          /\ k > Len(stack) - hist.pushed =>
                /\ stack[k].attempt = 0
                /\ stack[k].format = NoFormat
                /\ stack[k].sources = {} /\ stack[k].dependencies = {}
                /\ stack[k].parent = hist.pos

\* C5 witness: the importer of the bottom item has been invoked again after
\* the items pushed for it were popped, with another item above it before.
C5_Witness ==
    /\ Len(stack) >= 1
    /\ hist.pos = 1
    /\ stack[1].required # {}
    /\ stack[1].imports >= 2

\* C6: when a store call has failed, the source meta of the failing item is
\* what it was when the call started.
C6_FailureLeavesNoEntry ==
    result \in Failures =>
        meta[stack[Len(stack)].source] = meta0[stack[Len(stack)].source]

\* C6 witness: a call has failed after it had written the asset of another
\* item.
C6_Witness ==
    /\ result \in Failures
    /\ \E u \in Urls : meta[u] # meta0[u]

----------------------------------------------------------------------------
(* Specifications of the id generator.                                     *)

InitId ==
    /\ PathsAtRest
    /\ now \in Times
    /\ \E s1 \in Salts, s2 \in Salts :
          /\ s1 <= s2
          /\ ctx = [c \in Ctxs |-> NewContext(IF c = 1 THEN s1 ELSE s2)]
    /\ thr = [t \in Threads |-> IdleThread]
    /\ issued = [c \in Ctxs |-> {}]
    /\ ncalls = [c \in Ctxs |-> 0]
    /\ track = TRUE
    /\ LaterAtRest
    /\ StoreAtRest(NoImporters)

NextId ==
    \/ \E t \in Threads, c \in Ctxs : GenRead(t, c)
    \/ \E t \in Threads : GenLock(t)
    \/ \E t \in Threads : GenBody(t)
    \/ Tick

SpecId == InitId /\ [][NextId]_vars

InitIdLong ==
    /\ PathsAtRest
    /\ now \in Times
    /\ ctx = [c \in Ctxs |-> NewContext(0)]
    /\ thr = [t \in Threads |-> IdleThread]
    /\ issued = [c \in Ctxs |-> {}]
    /\ ncalls = [c \in Ctxs |-> 0]
    /\ track = FALSE
    /\ LaterAtRest
    /\ StoreAtRest(NoImporters)

NextIdLong ==
    \/ GenRead(1, 1)
    \/ GenLock(1)
    \/ GenBody(1)
    \/ GenWake(1)
    \/ Tick

SpecIdLong == InitIdLong /\ [][NextIdLong]_vars

----------------------------------------------------------------------------
(* Claims about the id generator.                                          *)

\* C7 (as claimed): the ids one context has returned are pairwise distinct:
\* as many different ids as calls that returned.
C7_IdsPairwiseDistinct ==
    \A c \in Ctxs : Cardinality(issued[c]) = ncalls[c]

\* C8: every id generate() returns is non-zero: the counter field it is made
\* from lies in 1..0xFFF and the NonZeroU64 expect() never fires.
C8_IdsNonZero ==
    /\ \A c \in Ctxs : Zero64 \notin issued[c]
    /\ \A c \in Ctxs : ncalls[c] > 0 => ctx[c].counter \in 1 .. COUNTER_MAX
    /\ \A t \in Threads : thr[t].pc = "panicked" => thr[t].why # "zero"

\* C8 witness: a context with node 0 has returned the id made at timestamp 0
\* with counter 1, the smallest pre-scramble value there is.
C8_Witness ==
    \E c \in Ctxs : ctx[c].node = 0 /\ Scramble(1) \in issued[c]

\* C9 (as claimed): contexts constructed with distinct 16-bit salts never
\* return the same id.
C9_DistinctSaltsDisjoint ==
    ctx[1].salt # ctx[2].salt => issued[1] \cap issued[2] = {}

C11_NeverWaitsForLock ==
    \A t \in Threads :
        thr[t].pc = "read" => ctx[thr[t].c].holder = NoThread

----------------------------------------------------------------------------
(* with_path_candidates with an arbitrary visitor.                          *)

InitCandidates ==
    /\ PathsAtRest
    /\ now = 0
    /\ ctx = [c \in Ctxs |-> NewContext(0)]
    /\ thr = [t \in Threads |-> IdleThread]
    /\ issued = [c \in Ctxs |-> {}]
    /\ ncalls = [c \in Ctxs |-> 0]
    /\ track = FALSE
    /\ LaterAtRest
    /\ StoreAtRest(NoImporters)

NextCandidates ==
    \/ \E h \in WalkHashes : WalkStart(h)
    \/ \E answer \in {"Found", "Collision", "Error"} : WalkVisit(answer)

SpecCandidates == InitCandidates /\ [][NextCandidates]_vars

\* The number of prefix candidates of a hex string.
C12_Prefixes == IF Len(walk.hex) >= 8 THEN Len(walk.hex) - 7 ELSE 0

\* C12: the i-th candidate visited is h[..7+i] with suffix 0 while prefix
\* lengths remain, then h:0, h:1, ...; every visit before the last one
\* collided, and a visit that answered Found or failed is the last one.
C12_CandidateOrder ==
    /\ Len(walk.answers) = Len(walk.visited)
    /\ \A i \in DOMAIN walk.visited :
          /\ i <= C12_Prefixes =>
                walk.visited[i] =
                    [prefix |-> 7 + i, suffix |-> 0,
                     path |-> [stem |-> SubSeq(walk.hex, 1, 7 + i), suffix |-> -1]]
          /\ i > C12_Prefixes =>
                walk.visited[i] =
                    [prefix |-> Len(walk.hex), suffix |-> i - C12_Prefixes - 1,
                     path |-> [stem |-> walk.hex, suffix |-> i - C12_Prefixes - 1]]
          /\ i < Len(walk.visited) => walk.answers[i] = "Collision"
    /\ walk.outcome = "running" =>
          \A i \in DOMAIN walk.answers : walk.answers[i] = "Collision"
    /\ walk.outcome = "found" => walk.answers[Len(walk.answers)] = "Found"
    /\ walk.outcome = "error" => walk.answers[Len(walk.answers)] = "Error"

\* C12 witness: a 64-digit hex string whose 57 prefixes all collided was found
\* at its second suffixed name.
C12_Witness ==
    /\ walk.outcome = "found"
    /\ Len(walk.hex) = 64
    /\ Len(walk.visited) = 59

----------------------------------------------------------------------------
(* Sequential artifact placements by one process.                           *)

InitPlace ==
    /\ now = 0
    /\ ctx = [c \in Ctxs |-> NewContext(0)]
    /\ thr = [t \in Threads |-> IdleThread]
    /\ issued = [c \in Ctxs |-> {}]
    /\ ncalls = [c \in Ctxs |-> 0]
    /\ track = FALSE
    /\ LaterAtRest
    /\ StoreAtRest(NoImporters)
    /\ conv = NoConv
    /\ MetaAtRest(EmptyDir)
    /\ \E d \in InitialDirs : PlaceAtRest(d)

NextPlace ==
    \/ \E content \in Contents, r \in Times : PlaceStart(1, content, r)
    \/ PlaceCheck(1)
    \/ PlaceAct(1)

SpecPlace == InitPlace /\ [][NextPlace]_vars

\* Placements into the directory whose prefix names are all taken.
InitPlaceCrowded ==
    /\ now = 0
    /\ ctx = [c \in Ctxs |-> NewContext(0)]
    /\ thr = [t \in Threads |-> IdleThread]
    /\ issued = [c \in Ctxs |-> {}]
    /\ ncalls = [c \in Ctxs |-> 0]
    /\ track = FALSE
    /\ LaterAtRest
    /\ StoreAtRest(NoImporters)
    /\ conv = NoConv
    /\ MetaAtRest(EmptyDir)
    /\ PlaceAtRest(CrowdedDir)

SpecPlaceCrowded == InitPlaceCrowded /\ [][NextPlace]_vars

\* A regular file byte-equal to the content is under the name.
C13_EqualFileAt(d, name, content) ==
    /\ name \in DOMAIN d
    /\ d[name].kind = "file"
    /\ d[name].content = content

C14_ArtifactsKeepTheirContent ==
    /\ \A i \in DOMAIN placed :
          C13_EqualFileAt(dir, placed[i].artifact_path, placed[i].content)
    /\ \A i, j \in DOMAIN placed :
          placed[i].content # placed[j].content =>
              placed[i].artifact_path # placed[j].artifact_path
    /\ Cardinality({n \in DOMAIN dir : dir[n].kind = "file"})
          = Cardinality({placed[i].content : i \in DOMAIN placed})
    /\ \A n \in DOMAIN jobs[1].dir0 : n \in DOMAIN dir /\ dir[n] = jobs[1].dir0[n]

\* C14 witness: three outputs whose hashes share their first 32 hex digits
\* have been placed, the third under a ten-digit name.
C14_Witness ==
    /\ Len(placed) = 3
    /\ Cardinality({placed[i].content : i \in DOMAIN placed}) = 3
    /\ \E i \in DOMAIN placed : placed[i].prefix = 10

\* C15 (as claimed): the path make_artifact_path computes from the sha256,
\* prefix and suffix of a returned asset meta is the path the artifact was
\* placed at.
C15_RecomputedPathIsPlacedPath ==
    \A i \in DOMAIN placed : MakeArtifactPath(placed[i]) = placed[i].artifact_path

\* C17 (as claimed): two placements of byte-identical outputs return distinct
\* asset ids and the same artifact path, and that path is one file.
C17_SameOutputTwoIdsOneFile ==
    \A i, j \in DOMAIN placed :
        (i < j /\ placed[i].content = placed[j].content) =>
            /\ placed[i].id # placed[j].id
            /\ placed[i].artifact_path = placed[j].artifact_path
            /\ C13_EqualFileAt(dir, placed[i].artifact_path, placed[i].content)

----------------------------------------------------------------------------
(* Two processes placing artifacts into one artifacts directory.            *)

InitRace ==
    /\ now = 0
    /\ ctx = [c \in Ctxs |-> NewContext(0)]
    /\ thr = [t \in Threads |-> IdleThread]
    /\ issued = [c \in Ctxs |-> {}]
    /\ ncalls = [c \in Ctxs |-> 0]
    /\ track = FALSE
    /\ LaterAtRest
    /\ StoreAtRest(NoImporters)
    /\ conv = NoConv
    /\ MetaAtRest(EmptyDir)
    /\ PlaceAtRest(EmptyDir)

NextRace ==
    \/ \E p \in Procs, content \in Contents, r \in Times : PlaceStart(p, content, r)
    \/ \E p \in Procs : PlaceCheck(p)
    \/ \E p \in Procs : PlaceAct(p)

SpecRace == InitRace /\ [][NextRace]_vars

\* C16 (as claimed): whatever the interleaving of two placements, a name an
\* import has occupied keeps that import's artifact: no returned asset meta
\* names a file with another content.
C16_NoTakeover ==
    \A i \in DOMAIN placed :
        /\ placed[i].artifact_path \in DOMAIN dir
        /\ dir[placed[i].artifact_path] = RegularFile(placed[i].content)

----------------------------------------------------------------------------
(* Lookups of source metas; lookups and add_asset.                          *)

InitLookup ==
    /\ now = 0
    /\ ctx = [c \in Ctxs |-> NewContext(0)]
    /\ thr = [t \in Threads |-> IdleThread]
    /\ issued = [c \in Ctxs |-> {}]
    /\ ncalls = [c \in Ctxs |-> 0]
    /\ track = FALSE
    /\ LaterAtRest
    /\ StoreAtRest(NoImporters)
    /\ conv = NoConv
    /\ PlaceAtRest(EmptyDir)
    /\ \E e \in InitialExternals : MetaAtRest(e)

NextLookup == \E u \in MetaUrls : MetaLookup(u)

SpecLookup == InitLookup /\ [][NextLookup]_vars

InitMeta ==
    /\ now = 0
    /\ ctx = [c \in Ctxs |-> NewContext(0)]
    /\ thr = [t \in Threads |-> IdleThread]
    /\ issued = [c \in Ctxs |-> {}]
    /\ ncalls = [c \in Ctxs |-> 0]
    /\ track = FALSE
    /\ LaterAtRest
    /\ StoreAtRest(NoImporters)
    /\ conv = NoConv
    /\ PlaceAtRest(EmptyDir)
    /\ MetaAtRest(EmptyDir)

\* One local and one external source.
NextMeta ==
    \/ \E u \in {"l1", "e1"} : MetaLookup(u)
    \/ \E u \in {"l1", "e1"}, k \in Keys, a \in AssetSamples : MetaAddAsset(u, k, a)

SpecMeta == InitMeta /\ [][NextMeta]_vars

\* C18: every lookup of an external URL has resolved to a meta file whose
\* stored URL is that URL; all lookups of one URL resolved to one file; no
\* file is what lookups of two URLs resolved to.
C18_LookupsResolveToOwnMeta ==
    /\ \A u \in ExtUrls :
          /\ Cardinality(resolved[u]) <= 1
          /\ \A p \in resolved[u] : ReadsWithUrl(external, p) /\ external[p].url = u
    /\ \A u, v \in ExtUrls : u # v => resolved[u] \cap resolved[v] = {}
    /\ opened.url \in ExtUrls => opened.ok /\ opened.stored_url = opened.url

\* C18 witness: all four external URLs have been looked up; e1 and e2 share
\* eight hex digits, e3 and e4 their whole hex string.
C18_Witness ==
    /\ \A u \in ExtUrls : resolved[u] # {}
    /\ \E p \in resolved["e2"] : Len(p.stem) = 9
    /\ \E p \in resolved["e3"] \cup resolved["e4"] : p.suffix = 1

\* C19 (as claimed): a meta opened after add_asset stored assets for its URL
\* opens, and holds under each key the asset stored there: the id, sha256,
\* prefix and suffix.
C19_ReopenReturnsStoredAssets ==
    opened.url # "" =>
        /\ opened.ok
        /\ \A k \in DOMAIN stored[opened.url] :
              /\ k \in DOMAIN opened.assets
              /\ opened.assets[k] = stored[opened.url][k]

\* The records of the meta files: per sidecar and per external path, the
\* serialized assets by key.
Records(ext, sc) ==
    [place \in {<<"local", u>> : u \in {v \in LocalUrls : sc[v] # <<>>}}
                 \cup {<<"external", p>> : p \in DOMAIN ext} |->
        IF place[1] = "local" THEN sc[place[2]][1].assets ELSE ext[place[2]].assets]

\* The records a step adds: place and key.
NewRecords(before, after) ==
    {<<place, k>> : place \in DOMAIN after, k \in Keys} \cap
    {pk \in (DOMAIN after) \X Keys :
        /\ pk[2] \in DOMAIN after[pk[1]]
        /\ pk[1] \in DOMAIN before => pk[2] \notin DOMAIN before[pk[1]]}

\* C39: a step of add_asset leaves every record that a meta file held as it
\* was, also the one under the key it was called with, and adds at most one
\* record.
C39_AddAssetKeepsRecords ==
    [][LET before == Records(external, sidecar)
           after == Records(external', sidecar')
       IN  /\ \A place \in DOMAIN before :
                 /\ place \in DOMAIN after
                 /\ \A k \in DOMAIN before[place] :
                       /\ k \in DOMAIN after[place]
                       /\ after[place][k] = before[place][k]
           /\ Cardinality(NewRecords(before, after)) <= 1]_vars

\* A meta file holds two records: the second add_asset rewrote the file that
\* held the first.
C39_Witness ==
    /\ adds = 2
    /\ \E place \in DOMAIN Records(external, sidecar) :
          DOMAIN Records(external, sidecar)[place] = Keys

----------------------------------------------------------------------------
(* A hash rendered as hex and parsed back.                                  *)

InitHex ==
    /\ now = 0
    /\ ctx = [c \in Ctxs |-> NewContext(0)]
    /\ thr = [t \in Threads |-> IdleThread]
    /\ issued = [c \in Ctxs |-> {}]
    /\ ncalls = [c \in Ctxs |-> 0]
    /\ track = FALSE
    /\ LaterAtRest
    /\ StoreAtRest(NoImporters)
    /\ PlaceAtRest(EmptyDir)
    /\ MetaAtRest(EmptyDir)
    /\ \E h \in Hashes : conv = [NoConv EXCEPT !.stage = "hash", !.hash = h]

NextHex == Render \/ Parse

SpecHex == InitHex /\ [][NextHex]_vars

\* C20 (as claimed): parsing the hex rendering of a hash succeeds and returns
\* the hash.
C20_ParseOfHexIsIdentity ==
    conv.stage = "parsed" => conv.parsed.ok /\ conv.parsed.bytes = conv.hash

----------------------------------------------------------------------------
(* Claims about the registry of importers.                                 *)

InitImporters ==
    /\ PathsAtRest
    /\ now = 0
    /\ ctx = [c \in Ctxs |-> NewContext(0)]
    /\ thr = [t \in Threads |-> IdleThread]
    /\ issued = [c \in Ctxs |-> {}]
    /\ ncalls = [c \in Ctxs |-> 0]
    /\ track = FALSE
    /\ StoreAtRest(NoImporters)
    /\ LaterAtRest

\* The same state for the other parts.
InitRest == InitImporters

NextImporters == \E i \in ImporterSamples(Len(added) + 1) : AddImporter(i)

SpecImporters == InitImporters /\ [][NextImporters]_vars

\* The importers registered for a target, and those of them that declare an
\* extension.
RegisteredFor(target) == {added[i] : i \in {j \in DOMAIN added : added[j].target = target}}
Declaring(target, extension) ==
    {i \in RegisteredFor(target) : \E k \in DOMAIN i.extensions : i.extensions[k] = extension}

\* C21: guess without format and extension returns the importer when one
\* importer is registered for the target; when several are, it returns the
\* error whose formats are the source formats of the importers registered for
\* the target, no more and no less.
C21_GuessByTargetAlone ==
    \A t \in ImpTargets :
        LET g == Guess(reg, {}, {}, t)
        IN  /\ Cardinality(RegisteredFor(t)) = 1 =>
                  g.kind = "found" /\ g.importer = RegisteredFor(t)
            /\ Cardinality(RegisteredFor(t)) > 1 =>
                  /\ g.kind = "cannot_decide"
                  /\ g.formats = UNION {{i.formats[k] : k \in DOMAIN i.formats} :
                                           i \in RegisteredFor(t)}

\* C21 witness: two importers with the formats p and q are registered for a
\* target and the guess names exactly p and q.
C21_Witness ==
    /\ Len(added) = 2
    /\ added[1].target = "t" /\ added[2].target = "t"
    /\ added[1].formats = <<"p">> /\ added[2].formats = <<"q">>
    /\ Guess(reg, {}, {}, "t") = CannotDecideOnImporter({"p", "q"})

\* C22 (as claimed): guess with an extension returns the importer when one
\* importer of the target declares the extension, None when none declares it,
\* and an error when more than one declares it.
C22_GuessByExtension ==
    \A t \in ImpTargets, e \in ImpExtensions :
        LET g == Guess(reg, {}, {e}, t)
        IN  /\ Cardinality(Declaring(t, e)) = 1 =>
                  g.kind = "found" /\ g.importer = Declaring(t, e)
            /\ Cardinality(Declaring(t, e)) = 0 => g.kind = "none"
            /\ Cardinality(Declaring(t, e)) > 1 => g.kind = "cannot_decide"

\* An index map of a target is sound: every index is a position of the
\* target's importer list (counted from 0), the importer there has the target
\* and declares the key, and no importer before it in the list declares it.
SoundIndex(t, map, declared(_)) ==
    \A k \in DOMAIN map :
       /\ map[k] \in 0 .. Len(reg[t].importers) - 1
       /\ reg[t].importers[map[k] + 1].target = t
       /\ \E i \in DOMAIN declared(reg[t].importers[map[k] + 1]) :
             declared(reg[t].importers[map[k] + 1])[i] = k
       /\ \A j \in 1 .. map[k] :
             \A i \in DOMAIN declared(reg[t].importers[j]) :
                declared(reg[t].importers[j])[i] # k

FormatsOf(importer) == importer.formats
ExtensionsOf(importer) == importer.extensions

\* C40: after any registrations the format map and the extension map of
\* every target hold valid positions of importers of that target that declare
\* the key, and a key declared by several importers maps to the one
\* registered first; the importer list of a target is the importers
\* registered for it, in order.
C40_IndicesSound ==
    \A t \in DOMAIN reg :
       /\ SoundIndex(t, reg[t].formats, FormatsOf)
       /\ SoundIndex(t, reg[t].extensions, ExtensionsOf)
       /\ reg[t].importers = SelectSeq(added, LAMBDA i : i.target = t)

\* Two importers of one target declare format p and extension e, the second
\* one format q as well: p and e map to the first, q to the second.
C40_Witness ==
    /\ "t" \in DOMAIN reg
    /\ Len(reg["t"].importers) = 2
    /\ reg["t"].importers[1].formats = <<"p">>
    /\ reg["t"].importers[2].formats = <<"p", "q">>
    /\ reg["t"].importers[1].extensions = <<"e">>
    /\ reg["t"].importers[2].extensions = <<"e", "g">>
    /\ reg["t"].formats["p"] = 0 /\ reg["t"].formats["q"] = 1
    /\ reg["t"].extensions["e"] = 0 /\ reg["t"].extensions["g"] = 1

----------------------------------------------------------------------------
(* Claims about the import call across the FFI.                            *)

NextFfi ==
    \/ FfiStart
    \/ \E a \in PluginAnswers : FfiCall(a)
    \/ FfiReturn

SpecFfi == InitRest /\ [][NextFfi]_vars

\* C23: at every call *result_len is the length of the buffer; a plugin that
\* returned BUFFER_IS_TOO_SMALL has written the size its result requires; the
\* host retries with a buffer of exactly that size unless the size is above
\* ANY_BUF_LEN_LIMIT, which ends the call with an error; a plugin whose result
\* does not change is called at most twice and fits at the second call.
C23_BufferNegotiation ==
    /\ ffi.pc = "call" => ffi.result_len = RLen(ffi.data)
    /\ (ffi.pc = "returned" /\ ffi.rc = BUFFER_IS_TOO_SMALL) =>
          /\ ffi.result_len = LenRequired(ffi.answer)
          /\ ffi.result_len > RLen(ffi.data)
    /\ (ffi.pc = "call" /\ ffi.calls > 0) =>
          /\ RLen(ffi.data) = LenRequired(ffi.answer)
          /\ RLen(ffi.data) <= ANY_BUF_LEN_LIMIT
    /\ (ffi.pc = "done" /\ ffi.rc = BUFFER_IS_TOO_SMALL) =>
          /\ ffi.limit
          /\ LenRequired(ffi.answer) > ANY_BUF_LEN_LIMIT
          /\ ffi.result.kind = "Err"
    /\ ~ffi.changed =>
          /\ ffi.calls <= 2
          /\ (ffi.calls = 2 /\ ffi.pc # "call") => ffi.rc # BUFFER_IS_TOO_SMALL

\* C23 witness: a second call with a buffer of 65536 bytes has returned the
\* error; the plugin's result was the same both times.
C23_Witness ==
    /\ ffi.pc = "done"
    /\ ffi.calls = 2
    /\ ~ffi.changed
    /\ RLen(ffi.data) = ANY_BUF_LEN_LIMIT
    /\ ffi.rc = OTHER_ERROR

\* C24 (as claimed): the host returns the list the plugin's importer returned:
\* the same URLs in the same order for RequireSources, the same triples for
\* RequireDependencies.
C24_ListsRoundTrip ==
    (ffi.pc = "done" /\ ~ffi.changed
        /\ ffi.answer.kind \in {"RequireSources", "RequireDependencies"}
        /\ ~ffi.limit) =>
            ffi.result = ffi.answer

----------------------------------------------------------------------------
(* Claims about loading importer libraries.                                *)

\* The lists of at most n libraries.
LibraryLists(n) == UNION {[1 .. k -> LibrarySamples] : k \in 0 .. n}

NextLoad ==
    \/ \E libs \in LibraryLists(MaxLibs), base_ok \in BOOLEAN : TreasuryNew(libs, base_ok)
    \/ LoadDylibImporters
    \/ TreasuryNewReturns

SpecLoad == InitRest /\ [][NextLoad]_vars

\* The library has all three symbols, the magic and the host's version.
Loadable(lib) ==
    /\ lib.opens
    /\ lib.magic = {MAGIC}
    /\ lib.version = {HostVersion}
    /\ lib.export # {}

\* The names of the importers the library would export.
ExportedNames(lib) ==
    IF lib.export = {} THEN {}
    ELSE LET l == CHOOSE x \in lib.export : TRUE IN {l[i].imp.name : i \in DOMAIN l}

AddedNames == {added[i].name : i \in DOMAIN added}

\* C25: treasury_export_importers was called only in libraries whose magic
\* and version matched; a library with a missing symbol, another magic or
\* another version made load_importers fail and none of its importers was
\* added.
C25_ChecksBeforeExport ==
    /\ \A i \in ld.called :
          /\ ld.libs[i].magic = {MAGIC}
          /\ ld.libs[i].version = {HostVersion}
    /\ \A i \in 1 .. ld.next - 1 :
          ~Loadable(ld.libs[i]) =>
              /\ i \in ld.logged
              /\ i \notin ld.called
              /\ ExportedNames(ld.libs[i]) \cap AddedNames = {}

\* C25 witness: a library of another version and a library of another magic
\* were passed over, and a third library's export function was called.
C25_Witness ==
    /\ ld.pc = "done"
    /\ \E i, j \in ld.logged :
          /\ ld.libs[i].version = {HostVersion + 1}
          /\ ld.libs[j].magic = {MAGIC + 1}
    /\ ld.called # {}

\* The importers registered for any target.
Registered ==
    UNION {{reg[t].importers[i] : i \in DOMAIN reg[t].importers} : t \in DOMAIN reg}

\* C26 (as claimed): Treasury::new returns Ok whatever libraries fail to
\* load; no importer of a failed library is registered, and every importer
\* the other libraries of the list export is.
C26_EveryImporterRegistered ==
    (ld.pc = "done" /\ ld.base_ok) =>
        /\ ld.result = "Ok"
        /\ \A i \in DOMAIN ld.libs :
            IF Loadable(ld.libs[i])
            THEN ExportedNames(ld.libs[i]) \subseteq {r.name : r \in Registered}
            ELSE \A r \in Registered : r.name \notin ExportedNames(ld.libs[i])

\* C26 (amended): with a base path that canonicalizes, Treasury::new returns
\* Ok whatever libraries fail to load; no importer of a failed library is
\* registered, and of every other library of the list every importer whose
\* format, target and name are UTF-8 is registered.
C26_FailedLibrariesSkipped ==
    (ld.pc = "done" /\ ld.base_ok) =>
        /\ ld.result = "Ok"
        /\ \A i \in DOMAIN ld.libs :
            IF Loadable(ld.libs[i])
            THEN \A k \in DOMAIN Utf8Importers(CHOOSE l \in ld.libs[i].export : TRUE) :
                    Utf8Importers(CHOOSE l \in ld.libs[i].export : TRUE)[k] \in Registered
            ELSE \A r \in Registered : r.name \notin ExportedNames(ld.libs[i])

\* C26 witness: the second of three libraries failed on its version, the
\* first and the third exported importers, and Treasury::new returned Ok.
C26_Witness ==
    /\ ld.pc = "done"
    /\ ld.result = "Ok"
    /\ Len(ld.libs) = 3
    /\ ld.logged = {2}
    /\ ld.libs[2].version = {HostVersion + 1}
    /\ ExportedNames(ld.libs[1]) # {}
    /\ ExportedNames(ld.libs[3]) # {}
    /\ ExportedNames(ld.libs[1]) \cup ExportedNames(ld.libs[3]) \subseteq AddedNames

----------------------------------------------------------------------------
(* Claims about the temporary files of a store call.                       *)

\* A fresh treasury; the source "a" has an importer that may leave its output
\* behind, "d" is a data: URL.
InitTemp ==
    /\ PathsAtRest
    /\ now = 0
    /\ ctx = [c \in Ctxs |-> NewContext(0)]
    /\ thr = [t \in Threads |-> IdleThread]
    /\ issued = [c \in Ctxs |-> {}]
    /\ ncalls = [c \in Ctxs |-> 0]
    /\ track = FALSE
    /\ LaterAtRest
    /\ \E pa \in [kind : {"ok", "err", "needsrc"}, deps : {<<>>}] \cup OutputPolicies,
          pd \in [kind : {"ok", "err", "none"}, deps : {<<>>}] :
          StoreAtRest([u \in Urls |-> IF u = "a" THEN pa ELSE IF u = "d" THEN pd
                                      ELSE OkPolicy])

NextTemp ==
    \/ \E u \in {"a", "d"}, f \in Hints, t \in Targets : StoreCall(u, f, t)
    \/ StoreStep

SpecTemp == InitTemp /\ [][NextTemp]_vars

\* How a store call that returned (and did not panic) ended.
Returned == {"ok"} \cup (Failures \ {"panic_epoch", "panic_backwards", "panic_zero",
                                     "panic_exists", "exhausted"})

\* C27 (as claimed): when a store call has returned, with success or with an
\* error, no file is left at a path its Temporaries made.
C27_NoTempFileRemains ==
    result \in Returned => temps = {}

----------------------------------------------------------------------------
(* Claims about the server.                                                *)

\* Connections that open treasuries and disconnect; the server never idles
\* out.
NextRegistry ==
    \/ \E c \in Conns : Accept(c)
    \/ \E c \in Conns : Handshake(c, TRUE)
    \/ \E c \in Conns, path \in OpenPaths, init \in BOOLEAN, initialized \in BOOLEAN,
          sync \in BOOLEAN : RecvOpen(c, OpenRequest(path, init), initialized, sync)
    \/ \E c \in Conns, sent \in BOOLEAN : OpenSent(c, sent)
    \/ \E c \in Conns : Disconnect(c)

SpecRegistry == InitRest /\ [][NextRegistry]_vars

\* C28 (as claimed): the registry holds at most one Treasury instance per
\* treasury: two entries never hold instances opened on the same Treasury.toml.
C28_OneInstancePerTreasury ==
    \A k1 \in DOMAIN srv.treasuries, k2 \in DOMAIN srv.treasuries :
        k1 # k2 => srv.instances[srv.treasuries[k1]] # srv.instances[srv.treasuries[k2]]

\* The server with a pending_timeout of -1, 0 or 2 seconds.
InitIdle ==
    /\ PathsAtRest
    /\ now = 0
    /\ ctx = [c \in Ctxs |-> NewContext(0)]
    /\ thr = [t \in Threads |-> IdleThread]
    /\ issued = [c \in Ctxs |-> {}]
    /\ ncalls = [c \in Ctxs |-> 0]
    /\ track = FALSE
    /\ StoreAtRest(NoImporters)
    /\ ImportersAtRest
    /\ FfiAtRest
    /\ LoaderAtRest
    /\ FetchAtRest /\ SourcesAtRest /\ ExportAtRest /\ ScrambleAtRest
    /\ srv \in {ServerStarted(t) : t \in {-1, 0, 2}}
    /\ conn = [c \in Conns |-> FreeConn]

\* Connections come and go while the clock runs.
NextIdle ==
    \/ StartTimer
    \/ TimerFires
    \/ SecondPasses
    \/ \E c \in Conns : Accept(c)
    \/ \E rebound \in BOOLEAN : AcceptFails(rebound)
    \/ \E c \in Conns, ok \in BOOLEAN : Handshake(c, ok)
    \/ \E c \in Conns, open \in {NoOpen, BadOpen, OpenRequest("p", FALSE)} :
          RecvOpen(c, open, FALSE, TRUE)
    \/ \E c \in Conns : Disconnect(c)

SpecIdle == InitIdle /\ [][NextIdle]_vars

\* C29: the server waits on the timer only with a non-negative
\* pending_timeout and no task in flight, the timer runs for the full timeout
\* from the moment it was started, which is not before the last accept nor
\* before the last task ended; the server has left the loop for idleness only
\* after the timer ran out, with no connection accepted meanwhile.
C29_IdleExit ==
    /\ srv.pc \in {"timer", "idle_exit"} =>
          /\ srv.pending_timeout >= 0
          /\ Tasks = {}
          /\ srv.deadline = srv.timer_start + srv.pending_timeout
          /\ srv.timer_start >= srv.last_accept
          /\ srv.timer_start >= srv.idle_since
    /\ srv.pc = "idle_exit" =>
          /\ srv.clock - srv.last_accept >= srv.pending_timeout
          /\ srv.clock - srv.idle_since >= srv.pending_timeout
    /\ srv.pending_timeout < 0 => srv.pc \notin {"timer", "idle_exit"}

\* C29 witness: with a timeout of two seconds, a connection accepted during
\* the wait cancelled the timer; the server idled out two seconds after that
\* connection ended.
C29_Witness ==
    /\ srv.pc = "idle_exit"
    /\ srv.pending_timeout = 2
    /\ srv.cancelled
    /\ srv.idle_since > 0
    /\ srv.clock = srv.idle_since + 2

\* Connections that open the treasury at "p" and send requests.
NextRequests ==
    \/ \E c \in Conns : Accept(c)
    \/ \E c \in Conns : Handshake(c, TRUE)
    \/ \E c \in Conns : RecvOpen(c, OpenRequest("p", FALSE), FALSE, TRUE)
    \/ \E c \in Conns, kind \in RequestKinds, sent \in BOOLEAN :
          \E outcome \in Outcomes(kind) : HandleRequest(c, kind, outcome, sent)
    \/ \E c \in Conns : Disconnect(c)

SpecRequests == InitRest /\ [][NextRequests]_vars

\* C30 (as claimed): on a connection whose Open succeeded, as long as the
\* client has not disconnected and no transport error occurred, every request
\* read has its response, in the order of the requests, and the connection is
\* in the request loop.
C30_EveryRequestAnswered ==
    \A c \in Conns :
        (conn[c].treasury # 0 /\ ~conn[c].broken) =>
            /\ conn[c].pc = "loop"
            /\ Len(conn[c].resps) = Len(conn[c].reqs)
            /\ \A i \in DOMAIN conn[c].resps : conn[c].resps[i].to = conn[c].reqs[i]

\* C35: store returns Ok only with the stack empty, and what it returns is the
\* id and the artifact path of the asset that the source meta of the requested
\* source holds for the requested target, also when dependencies were
\* imported on the way.
C35_ReturnsRequestedAsset ==
    result = "ok" =>
       /\ stack = <<>>
       /\ HasAsset(meta, call.source, call.target)
       /\ ret = <<meta[call.source][call.target].id,
                  ArtifactPath(meta[call.source][call.target])>>

\* A call that imported a dependency before the requested asset returned.
C35_Witness ==
    /\ result = "ok"
    /\ call.imports >= 2
    /\ \E u \in Urls \ {call.source} :
          HasAsset(meta, u, call.target) /\ ~HasAsset(meta0, u, call.target)

----------------------------------------------------------------------------
(* The RequireSources branch of Treasury::store (lib.rs 346..371).          *)

\* A fresh treasury; the importer of "a" requires sources.
InitRequire ==
    /\ PathsAtRest
    /\ now = 0
    /\ ctx = [c \in Ctxs |-> NewContext(0)]
    /\ thr = [t \in Threads |-> IdleThread]
    /\ issued = [c \in Ctxs |-> {}]
    /\ ncalls = [c \in Ctxs |-> 0]
    /\ track = FALSE
    /\ LaterAtRest
    /\ \E pa \in [kind : {"needsrc", "needboth", "needsrcout", "srcbad", "srch",
                           "reqsrc"}, deps : {<<>>}] :
          StoreAtRest([u \in Urls |-> IF u = "a" THEN pa ELSE OkPolicy])

NextRequire ==
    \/ \E u \in {"a", "d"}, f \in Hints, t \in Targets : StoreCall(u, f, t)
    \/ StoreStep
    \/ \E u \in Files : Touch(u)

SpecRequire == InitRequire /\ [][NextRequire]_vars

\* The importer of the item on top of the stack answers RequireSources below
\* the attempt bound, and the engine goes on.
RequireSourcesRetry ==
    /\ result = "running"
    /\ result' = "running"
    /\ \E item \in {[stack[Current(stack)] EXCEPT !.attempt = @ + 1]} :
         /\ ~AlreadyImported(meta, item)
         /\ ImporterFound(item)
         /\ ~FetchFails(item.source)
         /\ ~TooManyAttempts(item)
         /\ Import(item, meta, fetched \cup {item.source}, asked[item.source]).kind
               = "RequireSources"

\* What the importer asked for in that attempt.
RequestedSources ==
    LET item == [stack[Current(stack)] EXCEPT !.attempt = @ + 1]
    IN  Range(Import(item, meta, fetched \cup {item.source},
                     asked[item.source]).sources)

\* What no RequireSources retry touches: the depth, the items below, the
\* identity of the item, the metas, the artifacts; the attempt counter grows
\* by one and the cache by the item's source and the requested URLs.
RetryFrame ==
    LET n == Current(stack)
    IN  /\ Len(stack') = Len(stack)
        /\ \A k \in 1 .. n - 1 : stack'[k] = stack[k]
        /\ stack'[n].source = stack[n].source
        /\ stack'[n].format = stack[n].format
        /\ stack'[n].target = stack[n].target
        /\ stack'[n].attempt = stack[n].attempt + 1
        /\ fetched' = fetched \cup {stack[n].source} \cup RequestedSources
        /\ meta' = meta
        /\ ret' = ret
        /\ UNCHANGED pathVars

\* C34 (as claimed): a RequireSources retry leaves the sources and the
\* dependencies recorded for the item as they were; only the attempt counter
\* and the cache change.
C34_OnlyAttemptAndCacheChange ==
    [][RequireSourcesRetry =>
          /\ RetryFrame
          /\ stack'[Current(stack)].sources = stack[Current(stack)].sources
          /\ stack'[Current(stack)].dependencies = stack[Current(stack)].dependencies]_vars

\* C34 (amended): a RequireSources retry keeps what was recorded for the item
\* and adds only what the importer took from the callbacks in that attempt:
\* cached sources with their modification times and ids of stored assets of
\* the target. Besides that only the attempt counter and the cache change.
C34_RecordedKept ==
    [][RequireSourcesRetry =>
          LET n == Current(stack)
          IN  /\ RetryFrame
              /\ stack[n].sources \subseteq stack'[n].sources
              /\ stack'[n].sources \ stack[n].sources
                    \subseteq {<<u, mtime[u]>> : u \in (fetched \cup {stack[n].source})
                                                        \cap Files}
              /\ stack[n].dependencies \subseteq stack'[n].dependencies
              /\ stack'[n].dependencies \ stack[n].dependencies
                    \subseteq {meta[u][stack[n].target].id :
                                  u \in {v \in Urls : HasAsset(meta, v, stack[n].target)}}]_vars

\* The importer read "x" from the cache, required "b", and the engine fetched
\* it: the item is at its third attempt with "x" recorded.
C34_Witness ==
    /\ result = "running"
    /\ Len(stack) = 1
    /\ stack[1].attempt = 2
    /\ stack[1].sources # {}
    /\ {"x", "b"} \subseteq fetched

----------------------------------------------------------------------------
(* Treasury::fetch (store/src/lib.rs 464..501) run by several threads on   *)
(* one Treasury, next to store calls.                                      *)

\* AssetItem of an asset of the meta of source u.
AssetItem(u, asset, t) ==
    [id |-> asset.id, source |-> u, format |-> asset.format, target |-> t]

\* scan_local and scan_external: every asset of every meta file whose id is
\* not among the existing keys.
ScanMetas(m, existing) ==
    {AssetItem(p[1], m[p[1]][p[2]], p[2]) :
        p \in {q \in Urls \X Targets :
                  HasAsset(m, q[1], q[2]) /\ m[q[1]][q[2]].id \notin existing}}

\* `if !*scanned` under the write lock.
NeedsScanAlways(a) == TRUE
NeedsScan(a) == ~a.scanned

\* `let scanned = *self.scanned.read()`: the thread starts fetch(id). `want`
\* is the artifact path a store call returned with this id.
FetchStart(t, id, want) ==
    /\ fth[t].pc \in {"idle", "done"}
    /\ arts.fetches < MaxFetches
    /\ arts.scanned_lock = NoLock
    /\ fth' = [fth EXCEPT ![t] =
                 [NoFetch EXCEPT !.pc = IF arts.scanned THEN "lookup" ELSE "keys",
                                 !.id = id, !.want = want,
                                 !.saw_scanned = arts.scanned]]
    /\ arts' = [arts EXCEPT !.fetches = @ + 1]
    /\ UNCHANGED <<now, idVars, storeVars, pathVars, impVars, ffiVars, ldVars, srvVars,
                   tailVars>>

\* `self.artifacts.read().keys().copied().collect()`
FetchKeys(t) ==
    /\ fth[t].pc = "keys"
    /\ arts.artifacts_lock = NoLock
    /\ fth' = [fth EXCEPT ![t].pc = "lock", ![t].existing = DOMAIN arts.artifacts]
    /\ UNCHANGED <<arts, now, idVars, storeVars, pathVars, impVars, ffiVars, ldVars,
                   srvVars, tailVars>>

\* `self.scanned.write()` and the second look at the flag; the guard is
\* dropped at once when the scan was made meanwhile.
FetchLock(t) ==
    /\ fth[t].pc = "lock"
    /\ arts.scanned_lock = NoLock
    /\ IF NeedsScan(arts)
       THEN /\ arts' = [arts EXCEPT !.scanned_lock = t]
            /\ fth' = [fth EXCEPT ![t].pc = "scan"]
       ELSE /\ fth' = [fth EXCEPT ![t].pc = "lookup"]
            /\ UNCHANGED arts
    /\ UNCHANGED <<now, idVars, storeVars, pathVars, impVars, ffiVars, ldVars, srvVars,
                   tailVars>>

\* scan_local and scan_external fill new_artifacts.
FetchScan(t) ==
    /\ fth[t].pc = "scan"
    /\ \E new \in {ScanMetas(meta, fth[t].existing)} :
         /\ fth' = [fth EXCEPT ![t].pc = "insert", ![t].fresh = new]
         /\ arts' = [arts EXCEPT !.scans = @ + 1, !.found = @ \cup new]
    /\ UNCHANGED <<now, idVars, storeVars, pathVars, impVars, ffiVars, ldVars, srvVars,
                   tailVars>>

\* HashMap::insert of every new artifact, in the order the directories
\* listed them: of two entries with one id the later one stays.
InsertAll(artifacts, new) ==
    {[i \in DOMAIN artifacts \cup {n.id : n \in new} |->
         IF i \in DOMAIN last THEN last[i] ELSE artifacts[i]] :
        last \in {f \in [{n.id : n \in new} -> new] :
                    \A i \in DOMAIN f : f[i].id = i}}

\* `self.artifacts.write()` and the insertions.
FetchInsert(t) ==
    /\ fth[t].pc = "insert"
    /\ arts.artifacts_lock = NoLock
    /\ \E inserted \in InsertAll(arts.artifacts, fth[t].fresh) :
         arts' = [arts EXCEPT !.artifacts_lock = t, !.artifacts = inserted]
    /\ fth' = [fth EXCEPT ![t].pc = "mark"]
    /\ UNCHANGED <<now, idVars, storeVars, pathVars, impVars, ffiVars, ldVars, srvVars,
                   tailVars>>

\* `*scanned = true; drop(artifacts); drop(scanned)`
FetchMark(t) ==
    /\ fth[t].pc = "mark"
    /\ arts' = [arts EXCEPT !.scanned = TRUE, !.artifacts_lock = NoLock,
                              !.scanned_lock = NoLock]
    /\ fth' = [fth EXCEPT ![t].pc = "lookup"]
    /\ UNCHANGED <<now, idVars, storeVars, pathVars, impVars, ffiVars, ldVars, srvVars,
                   tailVars>>

\* `self.artifacts.read().get(&id).cloned()?` and the call of store with the
\* item found.
FetchLookup(t) ==
    /\ fth[t].pc = "lookup"
    /\ arts.artifacts_lock = NoLock
    /\ IF fth[t].id \in DOMAIN arts.artifacts
       THEN /\ \E item \in {arts.artifacts[fth[t].id]} :
                 BeginStore(item.source, item.format, item.target)
            /\ fth' = [fth EXCEPT ![t].pc = "store"]
       ELSE /\ fth' = [fth EXCEPT ![t].pc = "done", ![t].out = {}]
            /\ UNCHANGED <<now, idVars, storeVars, pathVars>>
    /\ UNCHANGED <<arts, impVars, ffiVars, ldVars, srvVars, tailVars>>

\* `.await.ok()?` and `Some(path)`
FetchReturn(t) ==
    /\ fth[t].pc = "store"
    /\ result # "running"
    /\ fth' = [fth EXCEPT ![t].pc = "done",
                          ![t].out = IF result = "ok" THEN {ret[2]} ELSE {}]
    /\ UNCHANGED <<arts, now, idVars, storeVars, pathVars, impVars, ffiVars, ldVars,
                   srvVars, tailVars>>

\* A fresh treasury whose importer of "a" succeeds or fails.
InitFetch ==
    /\ PathsAtRest
    /\ now = 0
    /\ ctx = [c \in Ctxs |-> NewContext(0)]
    /\ thr = [t \in Threads |-> IdleThread]
    /\ issued = [c \in Ctxs |-> {}]
    /\ ncalls = [c \in Ctxs |-> 0]
    /\ track = FALSE
    /\ LaterAtRest
    /\ \E pa \in [kind : {"ok", "err"}, deps : {<<>>}] :
          StoreAtRest([u \in Urls |-> IF u = "a" THEN pa ELSE OkPolicy])

\* The ids a client can ask for: the id the last store call returned, and an
\* id no asset has.
NoAssetId == Bytes(1, 8)
Fetchable ==
    {[id |-> NoAssetId, want |-> {}]}
        \cup (IF result = "ok" THEN {[id |-> ret[1], want |-> {ret[2]}]} ELSE {})

\* No store call of a fetch is under way.
NoFetchStores == \A t \in FetchThreads : fth[t].pc # "store"

NextFetch ==
    \/ \E u \in {"a", "b"}, t \in Targets :
         NoFetchStores /\ StoreCall(u, NoFormat, t)
    \/ StoreStep
    \/ \E t \in FetchThreads, a \in Fetchable : FetchStart(t, a.id, a.want)
    \/ \E t \in FetchThreads : FetchKeys(t)
    \/ \E t \in FetchThreads : FetchLock(t)
    \/ \E t \in FetchThreads : FetchScan(t)
    \/ \E t \in FetchThreads : FetchInsert(t)
    \/ \E t \in FetchThreads : FetchMark(t)
    \/ \E t \in FetchThreads : FetchLookup(t)
    \/ \E t \in FetchThreads : FetchReturn(t)

SpecFetch == InitFetch /\ [][NextFetch]_vars

\* C32: whatever the interleaving of the fetch calls, the directories are
\* scanned at most once, the flag stays set once it is set, and whenever the
\* flag is set every entry the scan found is in the artifacts map.
C32_ScanOnce ==
    /\ arts.scans <= 1
    /\ (\E t \in FetchThreads : fth[t].pc \in {"lookup", "store", "done"})
          => arts.scanned
    /\ arts.scanned =>
          \A n \in arts.found :
             n.id \in DOMAIN arts.artifacts /\ arts.artifacts[n.id] \in arts.found

\* Two fetch calls raced for the scan: one made it, the other found the flag
\* set under the write lock, and the scan had found an asset.
C32_Witness ==
    /\ arts.scans = 1
    /\ arts.found # {}
    /\ \A t \in FetchThreads : fth[t].pc = "done" /\ ~fth[t].saw_scanned

\* C33 (as claimed): a fetch of the id a store call returned gives the
\* artifact path that call returned, whether the scan was made before or after
\* the store.
C33_FetchFindsStored ==
    \A t \in FetchThreads :
       (fth[t].pc = "done" /\ fth[t].want # {}) => fth[t].out = fth[t].want

----------------------------------------------------------------------------
(* Sources (store/src/sources.rs) with Temporaries (store/src/temp.rs).    *)

\* A URL: its scheme, the host of a file: URL, and what follows "data:" as a
\* sequence of tokens: ";base64", ",", a payload character "x", and "*", a
\* character that is no base64 digit.
Url(scheme, host, rest) == [scheme |-> scheme, host |-> host, rest |-> rest]
SourceUrls ==
    {Url("file", "", <<"a">>), Url("file", "", <<"b">>), Url("file", "h", <<"a">>),
     Url("http", "h", <<"a">>),
     Url("data", "", <<",", "x">>), Url("data", "", <<";base64", ",", "x">>),
     Url("data", "", <<";base64", ",", "*">>), Url("data", "", <<"x", ";base64">>),
     Url("data", "", <<"x", ",", "x", ",">>)}

\* Url::to_file_path: a file: URL with a host names no local file.
ToFilePath(u) == IF u.host = "" THEN {<<"file", u.rest>>} ELSE {}

\* `.find(',')`: the position of the first comma, if there is one.
FindComma(rest) ==
    IF \E i \in DOMAIN rest : rest[i] = ","
    THEN {CHOOSE i \in DOMAIN rest : rest[i] = "," /\ \A j \in 1 .. i - 1 : rest[j] # ","}
    ELSE {}

\* `source.as_str()[..data_start].ends_with(";base64,")`
IsBase64(rest, comma) == comma > 1 /\ rest[comma - 1] = ";base64"

\* base64::decode_config of the data
Decodes(data) == \A i \in DOMAIN data : data[i] # "*"

\* Temporaries::make_temporary: a random key that the map does not hold.
TempKeys == 1 .. MaxSourceCalls
MakeTemporary(made) == TempKeys \ made

\* The entry of the URL is occupied.
OccupiedNever(feched, u) == FALSE
Occupied(feched, u) == u \in DOMAIN feched

\* HashMap::insert under a vacant key.
Insert(feched, u, path) ==
    [k \in DOMAIN feched \cup {u} |-> IF k = u THEN path ELSE feched[k]]

\* The cache after a call, with what the call returned.
AfterCall(c, op, u, out, ok, feched, made, created) ==
    [feched |-> feched, made |-> made, created |-> created,
     first |-> IF op = "fetch" /\ ok /\ u \notin DOMAIN c.first
               THEN Insert(c.first, u, CHOOSE p \in out : TRUE) ELSE c.first,
     calls |-> c.calls + 1,
     last |-> [op |-> op, url |-> u, out |-> out, ok |-> ok,
               known |-> u \in DOMAIN c.first, feched |-> c.feched, made |-> c.made]]

\* Sources::get
SourcesGet(u) ==
    /\ fch.calls < MaxSourceCalls
    /\ fch' = AfterCall(fch, "get", u,
                        IF u \in DOMAIN fch.feched THEN {fch.feched[u]} ELSE {},
                        TRUE, fch.feched, fch.made, fch.created)
    /\ UNCHANGED <<now, idVars, storeVars, pathVars, impVars, ffiVars, ldVars, srvVars,
                   fetchVars, ex, scr>>

\* Sources::fetch; `writes` is whether File::write_all succeeds.
SourcesFetch(u, writes) ==
    /\ fch.calls < MaxSourceCalls
    /\ \E key \in MakeTemporary(fch.made) :
         LET c == fch
             temp == <<"temp", key>>
             failed == AfterCall(c, "fetch", u, {}, FALSE, c.feched, c.made, c.created)
             spoilt == AfterCall(c, "fetch", u, {}, FALSE, c.feched,
                                 c.made \cup {key}, c.created \cup {temp})
         IN  fch' =
               IF Occupied(c.feched, u)
               THEN AfterCall(c, "fetch", u, {c.feched[u]}, TRUE, c.feched, c.made,
                              c.created)
               ELSE CASE u.scheme = "file" ->
                           IF ToFilePath(u) = {} THEN failed
                           ELSE AfterCall(c, "fetch", u, ToFilePath(u), TRUE,
                                          Insert(c.feched, u,
                                                 CHOOSE p \in ToFilePath(u) : TRUE),
                                          c.made, c.created)
                      [] u.scheme = "data" ->
                           IF FindComma(u.rest) = {} THEN failed
                           ELSE LET comma == CHOOSE i \in FindComma(u.rest) : TRUE
                                    data == SubSeq(u.rest, comma + 1, Len(u.rest))
                                IN  IF IsBase64(u.rest, comma) /\ ~Decodes(data)
                                    THEN spoilt
                                    ELSE IF ~writes THEN spoilt
                                    ELSE AfterCall(c, "fetch", u, {temp}, TRUE,
                                                   Insert(c.feched, u, temp),
                                                   c.made \cup {key},
                                                   c.created \cup {temp})
                      [] OTHER -> failed
    /\ UNCHANGED <<now, idVars, storeVars, pathVars, impVars, ffiVars, ldVars, srvVars,
                   fetchVars, ex, scr>>

NextSources ==
    \/ \E u \in SourceUrls : SourcesGet(u)
    \/ \E u \in SourceUrls, writes \in BOOLEAN : SourcesFetch(u, writes)

SpecSources == InitRest /\ [][NextSources]_vars

\* C36: a call about a URL that was fetched successfully before returns the
\* path of that first fetch and makes no temporary; get of a URL that no fetch
\* has cached returns nothing; a failed fetch leaves the cache as it was.
C36_CacheIsStable ==
    LET l == fch.last
    IN  /\ (l.op \in {"fetch", "get"} /\ l.known) =>
              /\ l.ok
              /\ l.out = {fch.first[l.url]}
              /\ fch.made = l.made
              /\ fch.feched = l.feched
        /\ (l.op = "get" /\ ~l.known) => l.out = {}
        /\ (l.op = "fetch" /\ ~l.ok) => fch.feched = l.feched

\* A data: URL was fetched into a temporary file, and a later fetch of it was
\* answered.
C36_Witness ==
    /\ fch.last.op = "fetch"
    /\ fch.last.known
    /\ fch.last.url.scheme = "data"
    /\ fch.made # {}

----------------------------------------------------------------------------
(* treasury_export_importers as make_treasury_importers_library expands it *)
(* (import/src/lib.rs 683..694) and the loop of load_importers that calls  *)
(* it (store/src/importer/dylib.rs 103..118).                              *)

\* A u32 as two 16-bit halves <<high, low>>.
HalfRange == 65536
U32Small(n) == <<0, n>>
U32Max == <<HalfRange - 1, HalfRange - 1>>
U32Value(v) == v[2]
IsSmall(v) == v[1] = 0

\* `count + 1` and `cap -= 1` on u32: an overflow panics when the library is
\* built with overflow checks and wraps when it is not.
Overflows(op, v) == IF op = "add" THEN v = U32Max ELSE v = <<0, 0>>
WrappingAddOne(v) ==
    IF v[2] < HalfRange - 1 THEN <<v[1], v[2] + 1>>
    ELSE IF v[1] < HalfRange - 1 THEN <<v[1] + 1, 0>> ELSE <<0, 0>>
\* `cap -= 1` made k times (k below 65536), wrapping.
WrappingSub(v, k) ==
    IF v[2] >= k THEN <<v[1], v[2] - k>>
    ELSE IF v[1] > 0 THEN <<v[1] - 1, v[2] + HalfRange - k>>
    ELSE <<HalfRange - 1, v[2] + HalfRange - k>>

\* treasury_export_importers(buffer, count) of a library of n importers: the
\* macro repeats `cap -= 1; if cap > 0 { write at len }; len += 1` once per
\* importer. `writes` are the positions written, counted from 0.
ExportImporters(n, build, count) ==
    LET start == WrappingAddOne(count)
        underflows == {k \in 1 .. n : Overflows("sub", WrappingSub(start, k - 1))}
        reached == IF build = "debug" /\ underflows # {}
                   THEN (CHOOSE k \in underflows : \A j \in underflows : k <= j) - 1
                   ELSE n
    IN  IF Overflows("add", count) /\ build = "debug"
        THEN [ret |-> 0, writes |-> {}, panicked |-> TRUE]
        ELSE [ret |-> IF reached < n THEN 0 ELSE n,
              writes |-> {k - 1 : k \in {j \in 1 .. reached :
                                            WrappingSub(start, j) # <<0, 0>>}},
              panicked |-> reached < n]

\* `(0..64).map(|_| MaybeUninit::uninit()).collect()`
FirstCapacity == 64
Uninit(len) == [i \in 1 .. len |-> "uninit"]

\* The records of the buffer after a call: a write at a position of the
\* buffer initializes it, a write beyond its end lands outside the vector.
Written(buf, writes) ==
    [i \in DOMAIN buf |-> IF i - 1 \in writes THEN "init" ELSE buf[i]]
Beyond(buf, writes) == {w \in writes : w >= Len(buf)}

\* Vec::resize_with(count, MaybeUninit::uninit) and Vec::truncate(count)
ResizeWith(buf, len) ==
    [i \in 1 .. len |-> IF i <= Len(buf) THEN buf[i] ELSE "uninit"]

\* load_importers gets the symbols of a library of n importers and makes its
\* buffer.
LoadStart(n, build) ==
    /\ ex.pc = "idle"
    /\ ex' = [NoLibrary EXCEPT !.pc = "loop", !.n = n, !.build = build,
                               !.buf = Uninit(FirstCapacity)]
    /\ UNCHANGED <<now, idVars, storeVars, pathVars, impVars, ffiVars, ldVars, srvVars,
                   fetchVars, fch, scr>>

\* One turn of the loop: the call, and the resize or the truncation.
LoadCall ==
    /\ ex.pc = "loop"
    /\ ex.calls < MaxExportCalls
    /\ \E r \in {ExportImporters(ex.n, ex.build, U32Small(Len(ex.buf)))} :
         ex' = [ex EXCEPT
                  !.calls = @ + 1,
                  !.last = [count |-> U32Small(Len(ex.buf)), ret |-> r.ret,
                            writes |-> r.writes, panicked |-> r.panicked],
                  !.oob = @ \cup Beyond(ex.buf, r.writes),
                  !.buf = IF r.panicked THEN Written(@, r.writes)
                          ELSE ResizeWith(Written(@, r.writes), r.ret),
                  !.pc = IF r.panicked THEN "aborted"
                         ELSE IF r.ret > Len(ex.buf) THEN "loop" ELSE "done"]
    /\ UNCHANGED <<now, idVars, storeVars, pathVars, impVars, ffiVars, ldVars, srvVars,
                   fetchVars, fch, scr>>

\* Another host calls the exported function with a buffer of `count` records.
ExportCall(n, build, count) ==
    /\ ex.pc = "idle"
    /\ \E r \in {ExportImporters(n, build, count)} :
         ex' = [NoLibrary EXCEPT
                  !.pc = IF r.panicked THEN "aborted" ELSE "called",
                  !.n = n, !.build = build, !.calls = 1,
                  !.buf = IF IsSmall(count)
                          THEN Written(Uninit(U32Value(count)), r.writes) ELSE <<>>,
                  !.oob = IF IsSmall(count)
                          THEN Beyond(Uninit(U32Value(count)), r.writes) ELSE {},
                  !.last = [count |-> count, ret |-> r.ret, writes |-> r.writes,
                            panicked |-> r.panicked]]
    /\ UNCHANGED <<now, idVars, storeVars, pathVars, impVars, ffiVars, ldVars, srvVars,
                   fetchVars, fch, scr>>

Builds == {"debug", "release"}
Counts == {U32Small(0), U32Small(1), U32Small(2), U32Max}

NextExport ==
    \/ \E n \in 0 .. MaxExported, build \in Builds : LoadStart(n, build)
    \/ LoadCall
    \/ \E n \in 0 .. 4, build \in Builds, count \in Counts : ExportCall(n, build, count)

SpecExport == InitRest /\ [][NextExport]_vars

\* C38 (as claimed): a call of the exported function writes at most `count`
\* records, all of them inside the buffer, and returns the number of importers
\* of the library whatever `count` is; the loop of load_importers ends with a
\* vector of exactly that many records, all initialized.
C38_ExportFitsBuffer ==
    /\ ex.pc # "aborted"
    /\ ex.oob = {}
    /\ ex.calls > 0 => ex.last.ret = ex.n
    /\ (ex.calls > 0 /\ IsSmall(ex.last.count)) =>
          Cardinality(ex.last.writes) <= U32Value(ex.last.count)
    /\ ex.pc = "done" =>
          Len(ex.buf) = ex.n /\ \A i \in DOMAIN ex.buf : ex.buf[i] = "init"

----------------------------------------------------------------------------
(* The composition of an id (id/src/lib.rs 184..188).                      *)

\* The fields generate() composes: a timestamp, `self.node` (masked by new())
\* and the counter after lines 172..182.
Fields ==
    [timestamp : 0 .. MaxStamp, node : {0, 1, NODE_MASK},
     counter : {1, 2, COUNTER_MAX}]

\* Everything at rest, two triples chosen.
InitScramble ==
    /\ PathsAtRest
    /\ now = 0
    /\ ctx = [c \in Ctxs |-> NewContext(0)]
    /\ thr = [t \in Threads |-> IdleThread]
    /\ issued = [c \in Ctxs |-> {}]
    /\ ncalls = [c \in Ctxs |-> 0]
    /\ track = FALSE
    /\ StoreAtRest(NoImporters)
    /\ ImportersAtRest /\ FfiAtRest /\ LoaderAtRest /\ ServerAtRest /\ FetchAtRest
    /\ SourcesAtRest /\ ExportAtRest
    /\ \E a \in Fields, b \in Fields :
          scr = [NoScramble EXCEPT !.pc = "chosen", !.a = a, !.b = b]

\* Lines 184..188 on both triples.
ComposeIds ==
    /\ scr.pc = "chosen"
    /\ \E pa \in {PreScramble(scr.a.timestamp, scr.a.node, scr.a.counter)},
          pb \in {PreScramble(scr.b.timestamp, scr.b.node, scr.b.counter)} :
         scr' = [scr EXCEPT !.pc = "made", !.pre = <<pa, pb>>,
                            !.id = <<Scramble(pa), Scramble(pb)>>]
    /\ UNCHANGED <<now, idVars, storeVars, pathVars, impVars, ffiVars, ldVars, srvVars,
                   fetchVars, fch, ex>>

NextScramble == ComposeIds

SpecScramble == InitScramble /\ [][NextScramble]_vars

\* The fields read back from a pre-scramble value.
FieldsOf(pre) ==
    [timestamp |-> pre \div Pow2(TIMESTAMP_SHIFT),
     node |-> (pre \div Pow2(NODE_SHIFT)) % (NODE_MASK + 1),
     counter |-> pre % (COUNTER_MAX + 1)]

\* C37: the three fields do not overlap (each is read back from the composed
\* value), and different triples give different values before and after the
\* multiplication by ID_MUL modulo 2^64.
C37_ScrambleInjective ==
    scr.pc = "made" =>
       /\ FieldsOf(scr.pre[1]) = scr.a
       /\ FieldsOf(scr.pre[2]) = scr.b
       /\ scr.a # scr.b => (scr.pre[1] # scr.pre[2] /\ scr.id[1] # scr.id[2])

\* Two ids of one millisecond that differ in the node only, with the largest
\* counter.
C37_Witness ==
    /\ scr.pc = "made"
    /\ scr.a.timestamp = scr.b.timestamp
    /\ scr.a.counter = COUNTER_MAX /\ scr.b.counter = COUNTER_MAX
    /\ scr.a.node = 1 /\ scr.b.node = NODE_MASK
    /\ scr.id[1] # scr.id[2]

\* C31 (as claimed): no interleaving of connection tasks leaves the thread
\* that polls them blocked on the registry mutex: an Open can always acquire
\* the registry while another connection's Open response is being sent.
C31_RegistryNeverBlocks ==
    srv.pc # "blocked"

====
